---------------------------- MODULE Spec2Model ----------------------------
(***************************************************************************)
(* A model of swift-guard's control plane: the map manager                 *)
(* (src/daemon/src/maps.rs), the request dispatch of the control server    *)
(* (src/daemon/src/server.rs), the text conversions they use               *)
(* (src/common/utils.rs, src/common/types.rs), the telemetry collector     *)
(* (src/daemon/src/telemetry.rs), the sandbox host                         *)
(* (src/daemon/src/wasm.rs) and the daemon's start and shutdown            *)
(* (src/daemon/src/main.rs).                                               *)
(*                                                                         *)
(* Strings are sequences of one-character strings, byte strings are        *)
(* sequences of 0..255, Option<T> is a record with a `some` flag.          *)
(***************************************************************************)
EXTENDS Integers, Sequences, FiniteSets, TLC

(***************************************************************************)
(* Bounds of the model.                                                    *)
(***************************************************************************)
\* the rule list holds at most MaxRules rules (AddRule is disabled beyond)
MaxRules == 2
MaxOrderRules == 3
MaxEncodeRules == 1
\* the classifier counts at most MaxMatches packets in the entries of
\* filter_rules taken together
MaxMatches == 1
\* at most MaxBadLookups of the lookups of one list request fail or come
\* back short
MaxBadLookups == 1
\* the sandbox host holds at most MaxModules modules, and a module inspects
\* at most MaxInspected packets
MaxModules == 2
MaxInspected == 2
\* the clock advances in steps of TickMs milliseconds up to MaxClock, and
\* the classifier processes at most MaxPackets packets while the sampler
\* is observed
TickMs == 50
MaxClock == 300
MaxPackets == 2

(***************************************************************************)
(* Option<T>                                                               *)
(***************************************************************************)
None == [some |-> FALSE]
Some(x) == [some |-> TRUE, v |-> x]

(***************************************************************************)
(* Sequence helpers                                                        *)
(***************************************************************************)
RECURSIVE Concat(_)
Concat(ss) == IF ss = <<>> THEN <<>> ELSE Head(ss) \o Concat(Tail(ss))

Take(s, n) == SubSeq(s, 1, IF n < Len(s) THEN n ELSE Len(s))
Drop(s, n) == SubSeq(s, n + 1, Len(s))
RemoveAt(s, i) == SubSeq(s, 1, i - 1) \o SubSeq(s, i + 1, Len(s))
Zeros(n) == [i \in 1..n |-> 0]

\* str::split(sep): the pieces between the separators, at least one piece
RECURSIVE SplitFrom(_, _, _)
SplitFrom(s, sep, cur) ==
    IF s = <<>> THEN <<cur>>
    ELSE IF Head(s) = sep THEN <<cur>> \o SplitFrom(Tail(s), sep, <<>>)
    ELSE SplitFrom(Tail(s), sep, Append(cur, Head(s)))
Split(s, sep) == SplitFrom(s, sep, <<>>)

\* str::trim(): leading and trailing white space removed
WhiteSpace == {" ", "\t", "\n", "\r"}
RECURSIVE TrimStart(_)
TrimStart(s) ==
    IF s # <<>> /\ Head(s) \in WhiteSpace THEN TrimStart(Tail(s)) ELSE s
RECURSIVE TrimEnd(_)
TrimEnd(s) ==
    IF s # <<>> /\ s[Len(s)] \in WhiteSpace
    THEN TrimEnd(SubSeq(s, 1, Len(s) - 1)) ELSE s
Trim(s) == TrimEnd(TrimStart(s))

\* str::starts_with
StartsWith(s, p) == Len(s) >= Len(p) /\ SubSeq(s, 1, Len(p)) = p

\* [T]::join(sep)
RECURSIVE Join(_, _)
Join(ss, sep) ==
    IF ss = <<>> THEN <<>>
    ELSE IF Len(ss) = 1 THEN Head(ss)
    ELSE Head(ss) \o sep \o Join(Tail(ss), sep)

(***************************************************************************)
(* Integers of the program's widths, decimal text and little-endian bytes  *)
(***************************************************************************)
\* TLC's integers end at 2^31 - 1: the model's inputs keep every number,
\* IPv4 addresses and counters included, below 2^31.
DigitChars == <<"0", "1", "2", "3", "4", "5", "6", "7", "8", "9">>
IsDigit(c) == \E i \in 1..10 : DigitChars[i] = c
DigitVal(c) == (CHOOSE i \in 1..10 : DigitChars[i] = c) - 1

\* format!("{}", n) of an unsigned integer
RECURSIVE ToDec(_)
ToDec(n) ==
    IF n < 10 THEN <<DigitChars[n + 1]>>
    ELSE Append(ToDec(n \div 10), DigitChars[(n % 10) + 1])

\* str::parse::<uN>(): an optional '+', then one or more digits, no
\* overflow beyond the type's maximum, which is 10 * hi + lo;
\* [ok |-> FALSE] is Err
RECURSIVE ParseDigits(_, _, _, _)
ParseDigits(s, acc, hi, lo) ==
    IF s = <<>> THEN [ok |-> TRUE, v |-> acc]
    ELSE IF ~IsDigit(Head(s)) THEN [ok |-> FALSE]
    ELSE IF acc > hi \/ (acc = hi /\ DigitVal(Head(s)) > lo)
    THEN [ok |-> FALSE]
    ELSE ParseDigits(Tail(s), acc * 10 + DigitVal(Head(s)), hi, lo)
ParseUInt(s, hi, lo) ==
    LET d == IF s # <<>> /\ Head(s) = "+" THEN Tail(s) ELSE s
    IN IF d = <<>> THEN [ok |-> FALSE] ELSE ParseDigits(d, 0, hi, lo)
ParseU8(s) == ParseUInt(s, 25, 5)
ParseU16(s) == ParseUInt(s, 6553, 5)
ParseU32(s) == ParseUInt(s, 429496729, 5)

\* uN::to_le_bytes()
LE16(n) == <<n % 256, (n \div 256) % 256>>
LE32(n) == <<n % 256, (n \div 256) % 256, (n \div 65536) % 256,
             (n \div 16777216) % 256>>
LE64(n) == LE32(n) \o <<0, 0, 0, 0>>
\* u64::from_le_bytes of eight bytes
RECURSIVE FromLE(_)
FromLE(b) == IF b = <<>> THEN 0 ELSE Head(b) + 256 * FromLE(Tail(b))

\* bit i (0 = least significant) of n
Bit(n, i) == (n \div (2 ^ i)) % 2

(***************************************************************************)
(* Text conversions of src/common/utils.rs                                 *)
(***************************************************************************)
\* parse_ip_prefix: "a.b.c.d" or "a.b.c.d/p" to (address, prefix length)
RECURSIVE OctetsToIp(_, _)
OctetsToIp(octets, ip) ==
    IF octets = <<>> THEN [ok |-> TRUE, v |-> ip]
    ELSE LET value == ParseU8(Head(octets))
         IN IF ~value.ok THEN [ok |-> FALSE]
            ELSE OctetsToIp(Tail(octets),
                            ip + value.v * (2 ^ (8 * (Len(octets) - 1))))
\* parse_ip_prefix without the limit of the prefix length
parse_ip_prefix_unlimited(s) ==
    LET parts == Split(s, "/")
        ip_str == Trim(parts[1])
        octets == Split(ip_str, ".")
    IN IF Len(octets) # 4 THEN [ok |-> FALSE]
       ELSE LET ip == OctetsToIp(octets, 0)
            IN IF ~ip.ok THEN [ok |-> FALSE]
               ELSE LET prefix_len ==
                            IF Len(parts) > 1
                            THEN ParseU32(Trim(parts[2]))
                            ELSE [ok |-> TRUE, v |-> 32]
                    IN IF ~prefix_len.ok THEN [ok |-> FALSE]
                       ELSE [ok |-> TRUE, v |-> <<ip.v, prefix_len.v>>]

parse_ip_prefix(s) ==
    LET parts == Split(s, "/")
        ip_str == Trim(parts[1])
        octets == Split(ip_str, ".")
    IN IF Len(octets) # 4 THEN [ok |-> FALSE]
       ELSE LET ip == OctetsToIp(octets, 0)
            IN IF ~ip.ok THEN [ok |-> FALSE]
               ELSE LET prefix_len ==
                            IF Len(parts) > 1
                            THEN ParseU32(Trim(parts[2]))
                            ELSE [ok |-> TRUE, v |-> 32]
                    IN IF ~prefix_len.ok THEN [ok |-> FALSE]
                       ELSE IF prefix_len.v > 32 THEN [ok |-> FALSE]
                       ELSE [ok |-> TRUE, v |-> <<ip.v, prefix_len.v>>]

\* parse_port_range: "80" or "1024-2048" to (min, max)
parse_port_range(s) ==
    IF \E i \in 1..Len(s) : s[i] = "-"
    THEN LET parts == Split(s, "-")
         IN IF Len(parts) # 2 THEN [ok |-> FALSE]
            ELSE LET min == ParseU16(Trim(parts[1]))
                     max == ParseU16(Trim(parts[2]))
                 IN IF ~min.ok \/ ~max.ok THEN [ok |-> FALSE]
                    ELSE IF min.v > max.v THEN [ok |-> FALSE]
                    ELSE [ok |-> TRUE, v |-> <<min.v, max.v>>]
    ELSE LET port == ParseU16(Trim(s))
         IN IF ~port.ok THEN [ok |-> FALSE]
            ELSE [ok |-> TRUE, v |-> <<port.v, port.v>>]

\* ipv4_to_string: dotted quad of a big-endian u32
ipv4_to_string(addr) ==
    ToDec((addr \div 16777216) % 256) \o <<".">> \o
    ToDec((addr \div 65536) % 256) \o <<".">> \o
    ToDec((addr \div 256) % 256) \o <<".">> \o
    ToDec(addr % 256)

\* action_num_to_name
action_num_to_name(num) ==
    CASE num = 1 -> <<"p", "a", "s", "s">>
      [] num = 2 -> <<"d", "r", "o", "p">>
      [] num = 3 -> <<"r", "e", "d", "i", "r", "e", "c", "t">>
      [] num = 4 -> <<"c", "o", "u", "n", "t">>
      [] OTHER -> <<"u", "n", "k", "n", "o", "w", "n">>

\* protocol_num_to_name
protocol_num_to_name(num) ==
    CASE num = 1 -> <<"i", "c", "m", "p">>
      [] num = 6 -> <<"t", "c", "p">>
      [] num = 17 -> <<"u", "d", "p">>
      [] num = 255 -> <<"a", "n", "y">>
      [] OTHER -> ToDec(num)

\* tcp_flags_to_string: the names of the set bits 0x01..0x20, joined by ","
FlagNames == << <<"F", "I", "N">>, <<"S", "Y", "N">>, <<"R", "S", "T">>,
                <<"P", "S", "H">>, <<"A", "C", "K">>, <<"U", "R", "G">> >>
RECURSIVE FlagList(_, _)
FlagList(flags, i) ==
    IF i > 6 THEN <<>>
    ELSE (IF Bit(flags, i - 1) = 1 THEN <<FlagNames[i]>> ELSE <<>>)
         \o FlagList(flags, i + 1)
tcp_flags_to_string(flags) ==
    LET result == FlagList(flags, 1)
    IN IF result = <<>> THEN <<"N", "o", "n", "e">>
       ELSE Join(result, <<",">>)

\* port_range_to_string
port_range_to_string(min, max) ==
    IF min = 0 /\ max = 65535 THEN None
    ELSE IF min = max THEN Some(ToDec(min))
    ELSE Some(ToDec(min) \o <<"-">> \o ToDec(max))

(***************************************************************************)
(* The parsers of src/common/types.rs, the inverse direction of the name   *)
(* conversions above                                                       *)
(***************************************************************************)
LowerChars == <<"a", "b", "c", "d", "e", "f", "g", "h", "i", "j", "k", "l",
                "m", "n", "o", "p", "q", "r", "s", "t", "u", "v", "w", "x",
                "y", "z">>
UpperChars == <<"A", "B", "C", "D", "E", "F", "G", "H", "I", "J", "K", "L",
                "M", "N", "O", "P", "Q", "R", "S", "T", "U", "V", "W", "X",
                "Y", "Z">>
\* str::to_lowercase, str::to_uppercase
to_lowercase(s) ==
    [i \in 1..Len(s) |->
        IF \E k \in 1..26 : UpperChars[k] = s[i]
        THEN LowerChars[CHOOSE k \in 1..26 : UpperChars[k] = s[i]]
        ELSE s[i]]
to_uppercase(s) ==
    [i \in 1..Len(s) |->
        IF \E k \in 1..26 : LowerChars[k] = s[i]
        THEN UpperChars[CHOOSE k \in 1..26 : LowerChars[k] = s[i]]
        ELSE s[i]]

\* ActionType::from_str, as the action's number
ActionType_from_str(s) ==
    LET l == to_lowercase(s)
    IN CASE l = <<"p", "a", "s", "s">> -> Some(1)
         [] l = <<"d", "r", "o", "p">> -> Some(2)
         [] l = <<"r", "e", "d", "i", "r", "e", "c", "t">> -> Some(3)
         [] l = <<"c", "o", "u", "n", "t">> -> Some(4)
         [] OTHER -> None

\* ProtocolType::from_str, as the protocol's number
ProtocolType_from_str(s) ==
    LET l == to_lowercase(s)
    IN CASE l = <<"i", "c", "m", "p">> -> Some(1)
         [] l = <<"t", "c", "p">> -> Some(6)
         [] l = <<"u", "d", "p">> -> Some(17)
         [] l = <<"a", "n", "y">> -> Some(255)
         [] OTHER -> None

\* TcpFlags::from_str: the bits of the names of a comma-separated list
RECURSIVE FlagBits(_, _)
FlagBits(names, flags) ==
    IF names = <<>> THEN flags
    ELSE LET n == to_uppercase(Trim(Head(names)))
             bit == IF \E i \in 1..6 : FlagNames[i] = n
                    THEN 2 ^ ((CHOOSE i \in 1..6 : FlagNames[i] = n) - 1)
                    ELSE 0
         IN FlagBits(Tail(names),
                     IF bit # 0 /\ Bit(flags, (CHOOSE i \in 1..6 :
                                                FlagNames[i] = n) - 1) = 1
                     THEN flags ELSE flags + bit)
TcpFlags_from_str(s) == FlagBits(Split(s, ","), 0)

(***************************************************************************)
(* String::as_bytes for the characters the model's strings are made of     *)
(***************************************************************************)
AsByte(c) ==
    IF IsDigit(c) THEN 48 + DigitVal(c)
    ELSE IF \E i \in 1..26 : LowerChars[i] = c
    THEN 96 + (CHOOSE i \in 1..26 : LowerChars[i] = c)
    ELSE IF c = "-" THEN 45
    ELSE IF c = "." THEN 46
    ELSE IF c = "/" THEN 47
    ELSE 63
as_bytes(s) == [i \in 1..Len(s) |-> AsByte(s[i])]

(***************************************************************************)
(* Kernel maps as libbpf_rs::Map presents them: a table from key bytes to  *)
(* value bytes with update (MapFlags::ANY), delete and lookup.             *)
(***************************************************************************)
EmptyMap == [k \in {} |-> <<>>]
MapUpdate(m, key, value) ==
    [k \in (DOMAIN m) \cup {key} |-> IF k = key THEN value ELSE m[k]]
MapDelete(m, key) == [k \in (DOMAIN m) \ {key} |-> m[k]]
\* what one lookup gives: "ok" is the map's answer, "err" a failing
\* lookup, "short" a value cut to ShortLen bytes
ShortLen == 16
LookupOutcomes == {"ok", "err", "short"}
MapLookup(m, key, outcome) ==
    IF outcome = "err" THEN [ok |-> FALSE]
    ELSE IF key \notin DOMAIN m THEN [ok |-> TRUE, v |-> None]
    ELSE IF outcome = "short"
    THEN [ok |-> TRUE, v |-> Some(Take(m[key], ShortLen))]
    ELSE [ok |-> TRUE, v |-> Some(m[key])]

(***************************************************************************)
(* MapManager (src/daemon/src/maps.rs).  A manager state mm is a record of *)
(* the rule list and the two kernel maps it writes.                        *)
(***************************************************************************)
RuleStatsSize == 24
ZeroStats == [packets |-> 0, bytes |-> 0, last_matched |-> 0]

\* FilterRule::to_rule_info
CidrToString(c) ==
    IF ~c.some THEN None
    ELSE IF c.v[2] = 32 THEN Some(ipv4_to_string(c.v[1]))
    ELSE Some(ipv4_to_string(c.v[1]) \o <<"/">> \o ToDec(c.v[2]))
to_rule_info(rule, stats) ==
    [label |-> rule.label,
     action |-> action_num_to_name(rule.action),
     src_ip |-> CidrToString(rule.src_ip),
     dst_ip |-> CidrToString(rule.dst_ip),
     src_port |-> port_range_to_string(rule.src_port_min, rule.src_port_max),
     dst_port |-> port_range_to_string(rule.dst_port_min, rule.dst_port_max),
     protocol |-> protocol_num_to_name(rule.protocol),
     tcp_flags |-> IF rule.tcp_flags = 0 THEN None
                   ELSE Some(tcp_flags_to_string(rule.tcp_flags)),
     priority |-> rule.priority,
     redirect_if |-> IF rule.action = 3 /\ rule.redirect_ifindex # 0
                     THEN Some(<<"i", "f">> \o ToDec(rule.redirect_ifindex))
                     ELSE None,
     rate_limit |-> rule.rate_limit,
     expire |-> rule.expire,
     stats |-> stats]

\* MapManager::create_prefix_key
create_prefix_key(addr, prefix_len) == LE32(prefix_len) \o LE32(addr)

\* MapManager::create_filter_rule
LabelBytes(label) ==
    LET b == as_bytes(label)
    IN [i \in 1..32 |-> IF i <= Len(b) /\ i - 1 < 31 THEN b[i] ELSE 0]
\* the value as a C compiler lays the struct out: the u32 behind tcp_flags
\* aligned to four bytes, and all 32 bytes of the label field used
create_filter_rule_aligned(rule) ==
    LE32(rule.priority) \o <<rule.action>> \o <<rule.protocol>> \o
    LE16(rule.src_port_min) \o LE16(rule.src_port_max) \o
    LE16(rule.dst_port_min) \o LE16(rule.dst_port_max) \o
    <<rule.tcp_flags>> \o <<0>> \o LE32(rule.redirect_ifindex) \o
    LE32(rule.rate_limit) \o LE32(rule.expire) \o
    [i \in 1..32 |-> IF i <= Len(rule.label) THEN AsByte(rule.label[i])
                     ELSE 0] \o Zeros(24)
create_filter_rule(rule) ==
    LE32(rule.priority) \o <<rule.action>> \o <<rule.protocol>> \o
    LE16(rule.src_port_min) \o LE16(rule.src_port_max) \o
    LE16(rule.dst_port_min) \o LE16(rule.dst_port_max) \o
    <<rule.tcp_flags>> \o LE32(rule.redirect_ifindex) \o
    LE32(rule.rate_limit) \o LE32(rule.expire) \o
    LabelBytes(rule.label) \o Zeros(24)

\* MapManager::create_if_redirect
create_if_redirect(ifindex, ifname) ==
    LET b == as_bytes(ifname)
    IN LE32(ifindex) \o
       [i \in 1..16 |-> IF i <= Len(b) /\ i - 1 < 15 THEN b[i] ELSE 0]

\* MapManager::add_rule; fr_ok and rd_ok say whether the kernel accepts the
\* write to filter_rules and to redirect_map
add_rule(mm, rule, fr_ok, rd_ok) ==
    LET has_src == rule.src_ip.some
        key == create_prefix_key(rule.src_ip.v[1], rule.src_ip.v[2])
        value == create_filter_rule(rule)
        fr1 == IF has_src THEN MapUpdate(mm.filter_rules, key, value)
               ELSE mm.filter_rules
        has_rd == rule.action = 3 /\ rule.redirect_ifindex # 0
        rd1 == IF has_rd
               THEN MapUpdate(mm.redirect_map, LE32(rule.redirect_ifindex),
                        create_if_redirect(rule.redirect_ifindex,
                            <<"i", "f">> \o ToDec(rule.redirect_ifindex)))
               ELSE mm.redirect_map
    IN IF has_src /\ ~fr_ok
       THEN [result |-> "Err(Failed to update filter_rules map)", mm |-> mm]
       ELSE IF has_rd /\ ~rd_ok
       THEN [result |-> "Err(Failed to update redirect_map)",
             mm |-> [mm EXCEPT !.filter_rules = fr1]]
       ELSE [result |-> "Ok",
             mm |-> [rules |-> Append(mm.rules, rule),
                     filter_rules |-> fr1, redirect_map |-> rd1]]

\* Vec::iter().position(|r| r.label == label): 0 stands for None
Position(rs, label) ==
    IF \E i \in 1..Len(rs) : rs[i].label = label
    THEN CHOOSE i \in 1..Len(rs) :
            /\ rs[i].label = label
            /\ \A j \in 1..(i - 1) : rs[j].label # label
    ELSE 0

\* delete_rule with position(..).unwrap_or(0): a label that is not listed
\* takes the first rule with it
delete_rule_unwrap_or(mm, label, del_ok) ==
    LET found == Position(mm.rules, label)
        index == IF found = 0 /\ mm.rules # <<>> THEN 1 ELSE found
        rule == mm.rules[index]
        has_src == rule.src_ip.some
        key == create_prefix_key(rule.src_ip.v[1], rule.src_ip.v[2])
    IN IF index = 0 THEN [result |-> "Ok(false)", mm |-> mm]
       ELSE IF has_src /\ (~del_ok \/ key \notin DOMAIN mm.filter_rules)
       THEN [result |-> "Err(Failed to delete from filter_rules map)",
             mm |-> mm]
       ELSE [result |-> IF found = 0 THEN "Ok(false)" ELSE "Ok(true)",
             mm |-> [mm EXCEPT
                       !.rules = RemoveAt(mm.rules, index),
                       !.filter_rules =
                           IF has_src THEN MapDelete(mm.filter_rules, key)
                           ELSE mm.filter_rules]]

\* delete_rule that also deletes the redirect_map entry of a REDIRECT rule
delete_rule_with_redirect(mm, label, del_ok) ==
    LET index == Position(mm.rules, label)
        rule == mm.rules[index]
        has_src == rule.src_ip.some
        key == create_prefix_key(rule.src_ip.v[1], rule.src_ip.v[2])
    IN IF index = 0 THEN [result |-> "Ok(false)", mm |-> mm]
       ELSE IF has_src /\ (~del_ok \/ key \notin DOMAIN mm.filter_rules)
       THEN [result |-> "Err(Failed to delete from filter_rules map)",
             mm |-> mm]
       ELSE [result |-> "Ok(true)",
             mm |-> [rules |-> RemoveAt(mm.rules, index),
                     filter_rules |->
                         IF has_src THEN MapDelete(mm.filter_rules, key)
                         ELSE mm.filter_rules,
                     redirect_map |->
                         IF rule.action = 3
                         THEN MapDelete(mm.redirect_map,
                                        LE32(rule.redirect_ifindex))
                         ELSE mm.redirect_map]]

\* delete_rule with Vec::swap_remove: the last rule takes the place of the
\* deleted one
delete_rule_swap_remove(mm, label, del_ok) ==
    LET index == Position(mm.rules, label)
        rule == mm.rules[index]
        n == Len(mm.rules)
        has_src == rule.src_ip.some
        key == create_prefix_key(rule.src_ip.v[1], rule.src_ip.v[2])
    IN IF index = 0 THEN [result |-> "Ok(false)", mm |-> mm]
       ELSE IF has_src /\ (~del_ok \/ key \notin DOMAIN mm.filter_rules)
       THEN [result |-> "Err(Failed to delete from filter_rules map)",
             mm |-> mm]
       ELSE [result |-> "Ok(true)",
             mm |-> [mm EXCEPT
                       !.rules = [i \in 1..(n - 1) |->
                                    IF i = index THEN mm.rules[n]
                                    ELSE mm.rules[i]],
                       !.filter_rules =
                           IF has_src THEN MapDelete(mm.filter_rules, key)
                           ELSE mm.filter_rules]]

\* MapManager::delete_rule; del_ok says whether the kernel accepts the
\* delete (a delete of a key that is not in the map fails in any case)
delete_rule(mm, label, del_ok) ==
    LET index == Position(mm.rules, label)
        rule == mm.rules[index]
        has_src == rule.src_ip.some
        key == create_prefix_key(rule.src_ip.v[1], rule.src_ip.v[2])
    IN IF index = 0 THEN [result |-> "Ok(false)", mm |-> mm]
       ELSE IF has_src /\ (~del_ok \/ key \notin DOMAIN mm.filter_rules)
       THEN [result |-> "Err(Failed to delete from filter_rules map)",
             mm |-> mm]
       ELSE [result |-> "Ok(true)",
             mm |-> [mm EXCEPT
                       !.rules = RemoveAt(mm.rules, index),
                       !.filter_rules =
                           IF has_src THEN MapDelete(mm.filter_rules, key)
                           ELSE mm.filter_rules]]

\* the per-rule statistics read of MapManager::list_rules
ParseStats(value) ==
    IF Len(value) >= RuleStatsSize
    THEN LET stats_bytes == Drop(value, Len(value) - RuleStatsSize)
         IN [packets |-> FromLE(SubSeq(stats_bytes, 1, 8)),
             bytes |-> FromLE(SubSeq(stats_bytes, 9, 16)),
             last_matched |-> FromLE(SubSeq(stats_bytes, 17, 24))]
    ELSE ZeroStats
RuleStatsOf(mm, rule, include_stats, outcome) ==
    IF include_stats /\ rule.src_ip.some
    THEN LET got == MapLookup(mm.filter_rules,
                        create_prefix_key(rule.src_ip.v[1], rule.src_ip.v[2]),
                        outcome)
         IN IF got.ok /\ got.v.some THEN ParseStats(got.v.v) ELSE ZeroStats
    ELSE ZeroStats

\* MapManager::list_rules; lookups[i] is the outcome of the lookup made for
\* the i-th rule
list_rules(mm, include_stats, lookups) ==
    [i \in 1..Len(mm.rules) |->
        to_rule_info(mm.rules[i],
                     RuleStatsOf(mm, mm.rules[i], include_stats, lookups[i]))]

(***************************************************************************)
(* The AddRule part of process_request (src/daemon/src/server.rs): the     *)
(* request's text fields are parsed, the FilterRule is built and handed to *)
(* the map manager.  An Err leaves the handler before a response is made.  *)
(***************************************************************************)
\* redirect_if to redirect_ifindex: "if<number>" is parsed, any other name
\* and no name give 0
RedirectIfindex(redirect_if) ==
    IF ~redirect_if.some THEN [ok |-> TRUE, v |-> 0]
    ELSE IF StartsWith(redirect_if.v, <<"i", "f">>)
    THEN ParseU32(Drop(redirect_if.v, 2))
    ELSE [ok |-> TRUE, v |-> 0]

ParseOpt(ip) ==
    IF ~ip.some THEN [ok |-> TRUE, v |-> None]
    ELSE LET r == parse_ip_prefix(ip.v)
         IN IF r.ok THEN [ok |-> TRUE, v |-> Some(r.v)] ELSE [ok |-> FALSE]

BuildRule(req, src, dst, ifindex, now) ==
    [src_ip |-> src, dst_ip |-> dst,
     src_port_min |-> req.src_port_min, src_port_max |-> req.src_port_max,
     dst_port_min |-> req.dst_port_min, dst_port_max |-> req.dst_port_max,
     protocol |-> req.protocol, tcp_flags |-> req.tcp_flags,
     action |-> req.action, redirect_ifindex |-> ifindex,
     priority |-> req.priority, rate_limit |-> req.rate_limit,
     expire |-> req.expire, label |-> req.label, creation_time |-> now]

\* what process_request returns: result is the handler's Result, resp the
\* ApiResponse of an Ok
Success(parts) == [kind |-> "Success", message |-> parts]
Error(parts) == [kind |-> "Error", message |-> parts]

process_add_rule(mm, req, now, fr_ok, rd_ok) ==
    LET src == ParseOpt(req.src_ip)
        dst == ParseOpt(req.dst_ip)
        ifx == RedirectIfindex(req.redirect_if)
        added == add_rule(mm, BuildRule(req, src.v, dst.v, ifx.v, now),
                          fr_ok, rd_ok)
    IN IF ~src.ok \/ ~dst.ok
       THEN [result |-> "Err(Invalid IP prefix)", mm |-> mm, resp |-> None]
       ELSE IF ~ifx.ok
       THEN [result |-> "Err(Invalid interface format)", mm |-> mm,
             resp |-> None]
       ELSE IF added.result # "Ok"
       THEN [result |-> added.result, mm |-> added.mm, resp |-> None]
       ELSE [result |-> "Ok", mm |-> added.mm,
             resp |-> Some(Success(<<"Rule '", req.label,
                                     "' added successfully">>))]

\* the DeleteRule part of process_request
process_delete_rule(mm, label, del_ok) ==
    LET deleted == delete_rule(mm, label, del_ok)
    IN IF deleted.result = "Ok(true)"
       THEN [result |-> "Ok", mm |-> deleted.mm,
             resp |-> Some(Success(<<"Rule '", label,
                                     "' deleted successfully">>))]
       ELSE IF deleted.result = "Ok(false)"
       THEN [result |-> "Ok", mm |-> deleted.mm,
             resp |-> Some(Error(<<"Rule '", label, "' not found">>))]
       ELSE [result |-> deleted.result, mm |-> deleted.mm, resp |-> None]

\* the Attach and Detach parts of process_request: the answer is Success
\* whatever the interface, and nothing is loaded or unloaded
ModeText(mode) == ToDec(mode)
process_attach(interface, mode, force) ==
    [result |-> "Ok",
     resp |-> Some(Success(<<"XDP program attached to ", interface,
                             " in mode ", ModeText(mode)>>))]
process_detach(interface) ==
    [result |-> "Ok",
     resp |-> Some(Success(<<"XDP program detached from ", interface>>))]

\* the LoadWasmModule, UnloadWasmModule, ListWasmModules and WasmModuleStats
\* parts of process_request
process_load_wasm_module(name, file_path) ==
    [result |-> "Ok",
     resp |-> Some(Error(<<"WASM module loading not implemented yet">>))]
process_unload_wasm_module(name) ==
    [result |-> "Ok",
     resp |-> Some(Error(<<"WASM module unloading not implemented yet">>))]
process_list_wasm_modules ==
    [result |-> "Ok",
     resp |-> Some(Error(<<"WASM module listing not implemented yet">>))]
process_wasm_module_stats(name) ==
    [result |-> "Ok",
     resp |-> Some(Error(<<"WASM module statistics not implemented yet">>))]

\* the ListRules part with a statistics read that propagates its error: a
\* failed or short lookup fails the request
process_list_rules_strict(mm, include_stats, lookups) ==
    IF include_stats /\ \E i \in 1..Len(mm.rules) :
                           mm.rules[i].src_ip.some /\ lookups[i] # "ok"
    THEN [result |-> "Err(Failed to read filter_rules map)", mm |-> mm,
          resp |-> None]
    ELSE [result |-> "Ok", mm |-> mm,
          resp |-> Some([kind |-> "Rules",
                         rules |-> list_rules(mm, include_stats, lookups)])]

\* the ListRules part of process_request
process_list_rules(mm, include_stats, lookups) ==
    [result |-> "Ok", mm |-> mm,
     resp |-> Some([kind |-> "Rules",
                    rules |-> list_rules(mm, include_stats, lookups)])]

(***************************************************************************)
(* The requests the model sends.  Labels and addresses are text, as on the *)
(* wire; the shapes cover the scenarios of the specification and the       *)
(* branches of the AddRule handler.                                        *)
(***************************************************************************)
LabelA == <<"a">>
LabelB == <<"b">>
Labels == {LabelA, LabelB}

Ip_10_0_0_0_8 == <<"1", "0", ".", "0", ".", "0", ".", "0", "/", "8">>
Ip_10_1_2_3_8 == <<"1", "0", ".", "1", ".", "2", ".", "3", "/", "8">>
Ip_100_64_1_100 ==
    <<"1", "0", "0", ".", "6", "4", ".", "1", ".", "1", "0", "0">>
Ip_10_0_0_1 == <<"1", "0", ".", "0", ".", "0", ".", "1">>
Ip_256_1_1_1 == <<"2", "5", "6", ".", "1", ".", "1", ".", "1">>
Ip_1_2_3_4_33 == <<"1", ".", "2", ".", "3", ".", "4", "/", "3", "3">>
If_if4 == <<"i", "f", "4">>
If_eth0 == <<"e", "t", "h", "0">>
If_eth1 == <<"e", "t", "h", "1">>
If_ifx == <<"i", "f", "x">>

BaseReq ==
    [type |-> "AddRule", label |-> LabelA, src_ip |-> None, dst_ip |-> None,
     src_port_min |-> 0, src_port_max |-> 65535,
     dst_port_min |-> 0, dst_port_max |-> 65535,
     protocol |-> 255, tcp_flags |-> 0, action |-> 1, redirect_if |-> None,
     priority |-> 0, rate_limit |-> 0, expire |-> 0]

\* drop tcp/80 from 10.0.0.0/8
DropReq(label) ==
    [BaseReq EXCEPT !.label = label, !.src_ip = Some(Ip_10_0_0_0_8),
                    !.dst_port_min = 80, !.dst_port_max = 80,
                    !.protocol = 6, !.action = 2]
\* every field set: a source whose host bits are set, a flag bit beyond URG
FullReq(label) ==
    [BaseReq EXCEPT !.label = label, !.src_ip = Some(Ip_10_1_2_3_8),
                    !.dst_ip = Some(Ip_10_0_0_1),
                    !.src_port_min = 1024, !.src_port_max = 2048,
                    !.dst_port_min = 443, !.dst_port_max = 443,
                    !.protocol = 17, !.tcp_flags = 82, !.action = 4,
                    !.priority = 7, !.rate_limit = 100, !.expire = 60]
\* redirect, with or without an interface name
RedirectReq(label, src_ip, redirect_if) ==
    [BaseReq EXCEPT !.label = label, !.src_ip = src_ip, !.action = 3,
                    !.redirect_if = redirect_if]

ValidRequests ==
    { DropReq(LabelA), DropReq(LabelB), FullReq(LabelA),
      RedirectReq(LabelB, None, None),
      RedirectReq(LabelA, Some(Ip_100_64_1_100), Some(If_if4)),
      RedirectReq(LabelB, Some(Ip_10_0_0_0_8), Some(If_eth0)) }

MalformedRequests ==
    { [BaseReq EXCEPT !.src_ip = Some(Ip_256_1_1_1)],
      [BaseReq EXCEPT !.dst_ip = Some(Ip_1_2_3_4_33)],
      RedirectReq(LabelA, None, Some(If_ifx)) }

AddRequests == ValidRequests \cup MalformedRequests

\* requests at the edges of the data model: port ranges whose minimum lies
\* above the maximum, prefix lengths of 0, 32 and 33
Ip_0_0_0_0_0 == <<"0", ".", "0", ".", "0", ".", "0", "/", "0">>
InvertedSrcPortsReq ==
    [BaseReq EXCEPT !.label = LabelA, !.src_port_min = 2048,
                    !.src_port_max = 1024]
InvertedDstPortsReq ==
    [BaseReq EXCEPT !.label = LabelB, !.src_ip = Some(Ip_10_0_0_0_8),
                    !.dst_port_min = 443, !.dst_port_max = 80]
RangeRequests ==
    { InvertedSrcPortsReq, InvertedDstPortsReq,
      [BaseReq EXCEPT !.src_ip = Some(Ip_0_0_0_0_0),
                      !.dst_ip = Some(Ip_10_0_0_1)],
      [BaseReq EXCEPT !.label = LabelB, !.src_ip = Some(Ip_1_2_3_4_33)],
      [BaseReq EXCEPT !.dst_ip = Some(Ip_1_2_3_4_33)],
      DropReq(LabelB) }

\* requests whose fields fill more than one byte, and labels of 31, 32 and
\* 33 bytes: the 32nd byte is "x", the 33rd "y"
LongLabel(n) ==
    [i \in 1..n |-> IF i = 32 THEN "x" ELSE IF i = 33 THEN "y" ELSE "l"]
EncodeLabels == {LabelA, LongLabel(31), LongLabel(32), LongLabel(33)}
If_if258 == <<"i", "f", "2", "5", "8">>
WideReq(label) ==
    [BaseReq EXCEPT !.label = label, !.src_ip = Some(Ip_10_1_2_3_8),
                    !.src_port_min = 1024, !.src_port_max = 2048,
                    !.dst_port_min = 443, !.dst_port_max = 8080,
                    !.protocol = 6, !.tcp_flags = 18, !.action = 3,
                    !.redirect_if = Some(If_if258), !.priority = 66051,
                    !.rate_limit = 16909060, !.expire = 86400]
EncodeRequests ==
    {WideReq(label) : label \in EncodeLabels} \cup
    {[DropReq(label) EXCEPT !.src_ip = Some(Ip_100_64_1_100)] :
        label \in EncodeLabels} \cup
    {RedirectReq(LabelB, None, Some(If_if4))}

\* the clock readings of SystemTime::now(), in seconds
Times == {1700000000}
\* the length of the frames the classifier sees
FrameLens == {64}

(***************************************************************************)
(* The aggregate counter slot: key 0 of stats_map holds packets and bytes  *)
(* as two little-endian u64.  MapManager::get_stats (the specification's   *)
(* aggregate()) and the telemetry collector read it.                       *)
(***************************************************************************)
AggregateSize == 16
StatsKey == LE32(0)
\* a lookup of the slot: "ok" is the map's answer, "err" a failing lookup,
\* "none" no value under the key, "short" a value cut to StatsShortLen bytes
StatsShortLen == 8
StatsLookupOutcomes == {"ok", "err", "none", "short"}
StatsLookup(m, outcome) ==
    IF outcome = "err" THEN [ok |-> FALSE]
    ELSE IF outcome = "none" \/ StatsKey \notin DOMAIN m
    THEN [ok |-> TRUE, v |-> None]
    ELSE IF outcome = "short"
    THEN [ok |-> TRUE, v |-> Some(Take(m[StatsKey], StatsShortLen))]
    ELSE [ok |-> TRUE, v |-> Some(m[StatsKey])]

ParseAggregate(value) ==
    [packets |-> FromLE(SubSeq(value, 1, 8)),
     bytes |-> FromLE(SubSeq(value, 9, 16))]

\* get_stats that parses what a short value holds: the packets of a value
\* of 8 bytes
get_stats_partial(m, outcome) ==
    LET got == StatsLookup(m, outcome)
    IN IF got.ok /\ got.v.some /\ Len(got.v.v) >= AggregateSize
       THEN ParseAggregate(got.v.v)
       ELSE IF got.ok /\ got.v.some /\ Len(got.v.v) >= 8
       THEN [packets |-> FromLE(SubSeq(got.v.v, 1, 8)), bytes |-> 0]
       ELSE [packets |-> 0, bytes |-> 0]

\* MapManager::get_stats
get_stats(m, outcome) ==
    LET got == StatsLookup(m, outcome)
    IN IF got.ok /\ got.v.some /\ Len(got.v.v) >= AggregateSize
       THEN ParseAggregate(got.v.v)
       ELSE [packets |-> 0, bytes |-> 0]

(***************************************************************************)
(* TelemetryCollector (src/daemon/src/telemetry.rs).  Instants are in      *)
(* milliseconds; mbps, an f64 in the program, is the exact ratio           *)
(* <<numerator, denominator>> in lowest terms.                             *)
(***************************************************************************)
MinIntervalMs == 100

RECURSIVE Gcd(_, _)
Gcd(a, b) == IF b = 0 THEN a ELSE Gcd(b, a % b)
Ratio(n, d) == IF n = 0 THEN <<0, 1>> ELSE <<n \div Gcd(n, d), d \div Gcd(n, d)>>

\* a subtraction that reports the distance of the two counters
abs_diff(a, b) == IF a >= b THEN a - b ELSE b - a

\* u64::saturating_sub
saturating_sub(a, b) == IF a >= b THEN a - b ELSE 0

\* TelemetryCollector::new at the instant now
TelemetryCollector_new(now) ==
    [last_collection |-> now,
     stats |-> [total_packets |-> 0, total_bytes |-> 0,
                packets_per_sec |-> 0, mbps |-> Ratio(0, 1),
                last_update |-> 0, prev_packets |-> 0, prev_bytes |-> 0]]

\* collect_stats that leaves prev_packets and prev_bytes as they were
collect_stats_keep_prev(tc, m, now, wall, outcome) ==
    LET elapsed == now - tc.last_collection
        got == StatsLookup(m, outcome)
        read == ParseAggregate(got.v.v)
        packets_diff == saturating_sub(read.packets, tc.stats.prev_packets)
        bytes_diff == saturating_sub(read.bytes, tc.stats.prev_bytes)
    IN IF elapsed < MinIntervalMs THEN tc
       ELSE IF got.ok /\ got.v.some /\ Len(got.v.v) >= AggregateSize
       THEN [tc EXCEPT !.stats =
               [total_packets |-> read.packets,
                total_bytes |-> read.bytes,
                packets_per_sec |-> (packets_diff * 1000) \div elapsed,
                mbps |-> Ratio(bytes_diff * 8, elapsed * 1000),
                last_update |-> wall,
                prev_packets |-> tc.stats.prev_packets,
                prev_bytes |-> tc.stats.prev_bytes]]
       ELSE tc

\* collect_stats that publishes an empty snapshot when it cannot read the
\* counters
collect_stats_clear_on_failure(tc, m, now, wall, outcome) ==
    LET elapsed == now - tc.last_collection
        got == StatsLookup(m, outcome)
        read == ParseAggregate(got.v.v)
        packets_diff == saturating_sub(read.packets, tc.stats.prev_packets)
        bytes_diff == saturating_sub(read.bytes, tc.stats.prev_bytes)
    IN IF elapsed < MinIntervalMs THEN tc
       ELSE IF got.ok /\ got.v.some /\ Len(got.v.v) >= AggregateSize
       THEN [tc EXCEPT !.stats =
               [total_packets |-> read.packets,
                total_bytes |-> read.bytes,
                packets_per_sec |-> (packets_diff * 1000) \div elapsed,
                mbps |-> Ratio(bytes_diff * 8, elapsed * 1000),
                last_update |-> wall,
                prev_packets |-> read.packets,
                prev_bytes |-> read.bytes]]
       ELSE [tc EXCEPT !.stats =
               [total_packets |-> 0, total_bytes |-> 0,
                packets_per_sec |-> 0, mbps |-> Ratio(0, 1),
                last_update |-> wall,
                prev_packets |-> tc.stats.prev_packets,
                prev_bytes |-> tc.stats.prev_bytes]]

\* TelemetryCollector::collect_stats at the instant now (wall clock wall)
\* with the given outcome of the stats_map lookup
collect_stats(tc, m, now, wall, outcome) ==
    LET elapsed == now - tc.last_collection
        got == StatsLookup(m, outcome)
        read == ParseAggregate(got.v.v)
        packets_diff == saturating_sub(read.packets, tc.stats.prev_packets)
        bytes_diff == saturating_sub(read.bytes, tc.stats.prev_bytes)
    IN IF elapsed < MinIntervalMs THEN tc
       ELSE IF got.ok /\ got.v.some /\ Len(got.v.v) >= AggregateSize
       THEN [tc EXCEPT !.stats =
               [total_packets |-> read.packets,
                total_bytes |-> read.bytes,
                packets_per_sec |-> (packets_diff * 1000) \div elapsed,
                mbps |-> Ratio(bytes_diff * 8, elapsed * 1000),
                last_update |-> wall,
                prev_packets |-> read.packets,
                prev_bytes |-> read.bytes]]
       ELSE tc

\* the Result collect_stats returns: a skipped attempt, a sample and a
\* lookup that fails, finds nothing or finds a short value all return Ok(())
collect_stats_result(tc, m, now, outcome) ==
    LET elapsed == now - tc.last_collection
        got == StatsLookup(m, outcome)
    IN IF elapsed < MinIntervalMs THEN "Ok"
       ELSE IF got.ok /\ got.v.some /\ Len(got.v.v) >= AggregateSize
       THEN "Ok"
       ELSE "Ok"

\* whether a call of collect_stats gets as far as the update of the stats:
\* the attempt is not skipped and the lookup gives 16 bytes or more
collect_stats_updates(tc, m, now, outcome) ==
    LET got == StatsLookup(m, outcome)
    IN /\ now - tc.last_collection >= MinIntervalMs
       /\ got.ok /\ got.v.some /\ Len(got.v.v) >= AggregateSize

\* a lock that hands out its guard whoever holds it
Mutex_lock_unguarded(owner, task) == TRUE
\* Mutex::lock on the stats: the guard is handed to task when no task holds
\* it; the guard is given back when it is dropped
Mutex_lock(owner, task) == owner = "none"
Mutex_unlock(owner, task) == IF owner = task THEN "none" ELSE owner

\* TelemetryCollector::get_stats
TelemetryCollector_get_stats(tc) ==
    [total_packets |-> tc.stats.total_packets,
     total_bytes |-> tc.stats.total_bytes,
     packets_per_sec |-> tc.stats.packets_per_sec,
     mbps |-> tc.stats.mbps]

\* the GetStats part of process_request
process_get_stats(tc) ==
    [result |-> "Ok",
     resp |-> Some([kind |-> "Stats",
                    stats |-> TelemetryCollector_get_stats(tc)])]

(***************************************************************************)
(* handle_connection (src/daemon/src/server.rs) on what a client has       *)
(* written by the time its stream ends or its request is complete:         *)
(* "short_length" is a stream that ends inside the 4-byte length,          *)
(* "truncated" one that ends inside the announced bytes, "malformed" the   *)
(* announced bytes that are no JSON of a request variant, "complete" a     *)
(* request req.  The malformed bytes of the model are a request with a     *)
(* field left out; req is the request they were meant to be.  map_ok and   *)
(* rd_ok say whether the kernel accepts the write or delete on             *)
(* filter_rules and the write on redirect_map.                             *)
(***************************************************************************)
process_request(mm, tc, req, now, map_ok, rd_ok) ==
    IF req.type = "AddRule" THEN process_add_rule(mm, req, now, map_ok, rd_ok)
    ELSE IF req.type = "DeleteRule"
    THEN process_delete_rule(mm, req.label, map_ok)
    ELSE LET out == process_get_stats(tc)
         IN [result |-> out.result, mm |-> mm, resp |-> out.resp]

\* handle_connection with a parser that fills a field that is left out with
\* its default
handle_connection_lenient(mm, tc, sent, now, map_ok, rd_ok) ==
    IF sent.kind = "short_length"
    THEN [result |-> "Err(Failed to read request length)", mm |-> mm,
          resp |-> None]
    ELSE IF sent.kind = "truncated"
    THEN [result |-> "Err(Failed to read request)", mm |-> mm, resp |-> None]
    ELSE process_request(mm, tc, sent.req, now, map_ok, rd_ok)

handle_connection(mm, tc, sent, now, map_ok, rd_ok) ==
    IF sent.kind = "short_length"
    THEN [result |-> "Err(Failed to read request length)", mm |-> mm,
          resp |-> None]
    ELSE IF sent.kind = "truncated"
    THEN [result |-> "Err(Failed to read request)", mm |-> mm, resp |-> None]
    ELSE IF sent.kind = "malformed"
    THEN [result |-> "Err(Failed to deserialize request)", mm |-> mm,
          resp |-> None]
    ELSE process_request(mm, tc, sent.req, now, map_ok, rd_ok)

(***************************************************************************)
(* The sandbox host (src/daemon/src/wasm.rs).  A module file is described  *)
(* by what loading it meets: whether the file can be read, compiles and    *)
(* instantiates, and what it exports.  What the module does with one       *)
(* packet is an outcome: the i32 its inspect_packet returns, or the step   *)
(* of the invocation that fails.                                           *)
(***************************************************************************)
Module(readable, compiles, instantiates, memory, init, inspect, allocate) ==
    [readable |-> readable, compiles |-> compiles,
     instantiates |-> instantiates, memory |-> memory, init |-> init,
     inspect |-> inspect, allocate |-> allocate]
GoodModule == Module(TRUE, TRUE, TRUE, TRUE, "none", TRUE, FALSE)
AllocModule == Module(TRUE, TRUE, TRUE, TRUE, "ok", TRUE, TRUE)
NoInspectModule == Module(TRUE, TRUE, TRUE, TRUE, "none", FALSE, FALSE)
UnreadableModule == Module(FALSE, TRUE, TRUE, TRUE, "none", TRUE, FALSE)
NoCompileModule == Module(TRUE, FALSE, TRUE, TRUE, "none", TRUE, FALSE)
NoInstanceModule == Module(TRUE, TRUE, FALSE, TRUE, "none", TRUE, FALSE)
NoMemoryModule == Module(TRUE, TRUE, TRUE, FALSE, "none", TRUE, FALSE)
BadInitModule == Module(TRUE, TRUE, TRUE, TRUE, "fail", TRUE, FALSE)
LoadableModules == {GoodModule, AllocModule, NoInspectModule}
BrokenModules == {UnreadableModule, NoCompileModule, NoInstanceModule,
                  NoMemoryModule, BadInitModule}
Modules == LoadableModules \cup BrokenModules
ModuleIds == {"m1", "m2"}

Returns(r) == [kind |-> "return", v |-> r]
Fails(step) == [kind |-> step]
ReturnValues == {0, 1, 2, -1}
InvokeOutcomes ==
    {Returns(r) : r \in ReturnValues} \cup
    {Fails("allocate"), Fails("write"), Fails("call")}

\* WasmInspector::new
WasmInspector_new(id, module) ==
    [id |-> id, path |-> module, state |-> "Initialized", loaded |-> FALSE,
     processed_packets |-> 0, blocked_packets |-> 0]

\* WasmInspector::load
WasmInspector_load(inspector) ==
    LET module == inspector.path
        failed(msg) == [result |-> msg, inspector |-> inspector]
    IN IF ~module.readable THEN failed("Err(Failed to open WASM file)")
       ELSE IF ~module.compiles
       THEN failed("Err(Failed to compile WASM module)")
       ELSE IF ~module.instantiates
       THEN failed("Err(Failed to instantiate WASM module)")
       ELSE IF ~module.memory
       THEN failed("Err(WASM module has no exported memory)")
       ELSE IF module.init = "fail"
       THEN failed("Err(Failed to call init function)")
       ELSE [result |-> "Ok",
             inspector |-> [inspector EXCEPT !.loaded = TRUE,
                                             !.state = "Loaded"]]

\* inspect_packet without the check of the module's state
inspect_packet_any_state(inspector, outcome) ==
    LET module == inspector.path
        failed(msg) == [result |-> msg, inspector |-> inspector]
    IN IF ~inspector.loaded
       THEN failed("Err(WASM store not initialized)")
       ELSE IF ~module.memory
       THEN failed("Err(WASM module has no exported memory)")
       ELSE IF ~module.inspect
       THEN failed("Err(WASM module has no inspect_packet function)")
       ELSE IF module.allocate /\ outcome.kind = "allocate"
       THEN failed("Err(Failed to allocate memory in WASM)")
       ELSE IF outcome.kind = "write"
       THEN failed("Err(Failed to write packet data to WASM memory)")
       ELSE IF outcome.kind # "return"
       THEN failed("Err(Failed to call inspect_packet function)")
       ELSE IF outcome.v # 0
       THEN [result |-> "Ok(true)",
             inspector |-> [inspector EXCEPT
                              !.processed_packets = @ + 1,
                              !.blocked_packets = @ + 1]]
       ELSE [result |-> "Ok(false)",
             inspector |-> [inspector EXCEPT !.processed_packets = @ + 1]]

\* inspect_packet that counts the packet before it calls the entry point
inspect_packet_count_first(inspector, outcome) ==
    LET module == inspector.path
        failed(msg) == [result |-> msg, inspector |-> inspector]
        counted == [inspector EXCEPT !.processed_packets = @ + 1]
    IN IF inspector.state \notin {"Loaded", "Running"}
       THEN failed("Err(WASM module not loaded)")
       ELSE IF ~inspector.loaded
       THEN failed("Err(WASM store not initialized)")
       ELSE IF ~module.memory
       THEN failed("Err(WASM module has no exported memory)")
       ELSE IF ~module.inspect
       THEN failed("Err(WASM module has no inspect_packet function)")
       ELSE IF module.allocate /\ outcome.kind = "allocate"
       THEN failed("Err(Failed to allocate memory in WASM)")
       ELSE IF outcome.kind = "write"
       THEN failed("Err(Failed to write packet data to WASM memory)")
       ELSE IF outcome.kind # "return"
       THEN [result |-> "Err(Failed to call inspect_packet function)",
             inspector |-> counted]
       ELSE IF outcome.v # 0
       THEN [result |-> "Ok(true)",
             inspector |-> [counted EXCEPT !.blocked_packets = @ + 1]]
       ELSE [result |-> "Ok(false)", inspector |-> counted]

\* WasmInspector::inspect_packet
WasmInspector_inspect_packet(inspector, outcome) ==
    LET module == inspector.path
        failed(msg) == [result |-> msg, inspector |-> inspector]
    IN IF inspector.state \notin {"Loaded", "Running"}
       THEN failed("Err(WASM module not loaded)")
       ELSE IF ~inspector.loaded
       THEN failed("Err(WASM store not initialized)")
       ELSE IF ~module.memory
       THEN failed("Err(WASM module has no exported memory)")
       ELSE IF ~module.inspect
       THEN failed("Err(WASM module has no inspect_packet function)")
       ELSE IF module.allocate /\ outcome.kind = "allocate"
       THEN failed("Err(Failed to allocate memory in WASM)")
       ELSE IF outcome.kind = "write"
       THEN failed("Err(Failed to write packet data to WASM memory)")
       ELSE IF outcome.kind # "return"
       THEN failed("Err(Failed to call inspect_packet function)")
       ELSE IF outcome.v # 0
       THEN [result |-> "Ok(true)",
             inspector |-> [inspector EXCEPT
                              !.processed_packets = @ + 1,
                              !.blocked_packets = @ + 1]]
       ELSE [result |-> "Ok(false)",
             inspector |-> [inspector EXCEPT !.processed_packets = @ + 1]]

\* the calls into the sandbox that WasmInspector::inspect_packet makes for a
\* packet of packet_len bytes, in their order; alloc_ptr is what the
\* module's allocate returns.  A call that fails is the last one.
FixedOffset == 1024
Call(fn, args) == [fn |-> fn, args |-> args]
\* the host writes the packet at the fixed offset before it asks the module
\* for a buffer, and hands the module the buffer
host_calls_write_first(inspector, packet_len, alloc_ptr, outcome) ==
    LET module == inspector.path
        write == <<Call("memory.write", <<FixedOffset, packet_len>>)>>
        alloc == IF module.allocate
                 THEN <<Call("allocate", <<packet_len>>)>> ELSE <<>>
        ptr == IF module.allocate THEN alloc_ptr ELSE FixedOffset
    IN IF \/ inspector.state \notin {"Loaded", "Running"}
          \/ ~inspector.loaded \/ ~module.memory \/ ~module.inspect
       THEN <<>>
       ELSE IF outcome.kind = "write" THEN write
       ELSE IF module.allocate /\ outcome.kind = "allocate"
       THEN write \o alloc
       ELSE write \o alloc \o
            <<Call("inspect_packet", <<ptr, packet_len>>)>>
host_calls(inspector, packet_len, alloc_ptr, outcome) ==
    LET module == inspector.path
        alloc == IF module.allocate
                 THEN <<Call("allocate", <<packet_len>>)>> ELSE <<>>
        ptr == IF module.allocate THEN alloc_ptr ELSE FixedOffset
        write == <<Call("memory.write", <<ptr, packet_len>>)>>
    IN IF \/ inspector.state \notin {"Loaded", "Running"}
          \/ ~inspector.loaded \/ ~module.memory \/ ~module.inspect
       THEN <<>>
       ELSE IF module.allocate /\ outcome.kind = "allocate" THEN alloc
       ELSE IF outcome.kind = "write" THEN alloc \o write
       ELSE alloc \o write \o
            <<Call("inspect_packet", <<ptr, packet_len>>)>>

\* load_module that puts the inspector in the list before it loads it
load_module_push_first(inspectors, id, module) ==
    LET loading == WasmInspector_load(WasmInspector_new(id, module))
    IN [result |-> loading.result,
        inspectors |-> Append(inspectors, loading.inspector)]

\* WasmManager::load_module
load_module(inspectors, id, module) ==
    LET loading == WasmInspector_load(WasmInspector_new(id, module))
    IN IF loading.result # "Ok"
       THEN [result |-> loading.result, inspectors |-> inspectors]
       ELSE [result |-> "Ok",
             inspectors |-> Append(inspectors, loading.inspector)]

\* WasmManager::inspect_packet: the loop over the inspectors from the i-th
\* on; outcomes[i] is what the i-th module does with the packet
RECURSIVE InspectFrom(_, _, _)
InspectFrom(inspectors, outcomes, i) ==
    IF i > Len(inspectors)
    THEN [result |-> "Ok(false)", inspectors |-> inspectors]
    ELSE IF inspectors[i].state \notin {"Loaded", "Running"}
    THEN InspectFrom(inspectors, outcomes, i + 1)
    ELSE LET one == WasmInspector_inspect_packet(inspectors[i], outcomes[i])
             after == [inspectors EXCEPT ![i] = one.inspector]
         IN IF one.result = "Ok(false)"
            THEN InspectFrom(after, outcomes, i + 1)
            ELSE [result |-> one.result, inspectors |-> after]
\* inspect_packet that asks every module and blocks if one of them did
RECURSIVE InspectAllFrom(_, _, _, _)
InspectAllFrom(inspectors, outcomes, i, blocked) ==
    IF i > Len(inspectors)
    THEN [result |-> IF blocked THEN "Ok(true)" ELSE "Ok(false)",
          inspectors |-> inspectors]
    ELSE IF inspectors[i].state \notin {"Loaded", "Running"}
    THEN InspectAllFrom(inspectors, outcomes, i + 1, blocked)
    ELSE LET one == WasmInspector_inspect_packet(inspectors[i], outcomes[i])
             after == [inspectors EXCEPT ![i] = one.inspector]
         IN IF one.result \in {"Ok(false)", "Ok(true)"}
            THEN InspectAllFrom(after, outcomes, i + 1,
                                blocked \/ one.result = "Ok(true)")
            ELSE [result |-> one.result, inspectors |-> after]
inspect_packet_all(inspectors, outcomes) ==
    InspectAllFrom(inspectors, outcomes, 1, FALSE)

inspect_packet(inspectors, outcomes) == InspectFrom(inspectors, outcomes, 1)

\* WasmManager::list_modules
list_modules(inspectors) ==
    [i \in 1..Len(inspectors) |->
        <<inspectors[i].id, inspectors[i].state,
          inspectors[i].processed_packets, inspectors[i].blocked_packets>>]

(***************************************************************************)
(* State                                                                   *)
(***************************************************************************)
VARIABLES
    rules,          \* MapManager.rules: the rule list
    filter_rules,   \* the kernel's filter_rules map
    redirect_map,   \* the kernel's redirect_map
    last,           \* the last request handled, its outcome and response
    live,           \* history: labels added and not deleted since
    stats_map,      \* the kernel's stats_map
    processed,      \* history: packets the classifier has processed
    clock,          \* Instant::now(), in milliseconds
    telemetry,      \* the TelemetryCollector
    sampled,        \* history: the last sample attempt
    inspectors,     \* WasmManager.inspectors
    wasm_last,      \* the last call of the sandbox host and its result
    daemon,         \* run_daemon: its tasks, its flag and its skeleton
    served,         \* history: what the server has answered Success to
    net,            \* the listener's connections and the server task at them
    lock            \* the Mutex of the collector's stats and the tasks at it

vars == <<rules, filter_rules, redirect_map, last, live, stats_map,
          processed, clock, telemetry, sampled, inspectors, wasm_last,
          daemon, served, net, lock>>

\* the state of the map manager and its maps, of the classifier's
\* aggregate slot, of the telemetry collector and of the sandbox host
manager_vars == <<rules, filter_rules, redirect_map, live>>
counter_vars == <<stats_map, processed>>
telemetry_vars == <<clock, telemetry, sampled>>
wasm_vars == <<inspectors, wasm_last>>
daemon_vars == <<daemon, served>>
task_vars == <<net, lock>>

Manager == [rules |-> rules, filter_rules |-> filter_rules,
            redirect_map |-> redirect_map]

NoRequest == [type |-> "None"]

\* what is remembered of the sample attempts: at is the instant of the last
\* attempt that was not skipped (the collector's creation before the first),
\* skipped and outcome tell whether the last attempt was skipped and what
\* its lookup gave, prev_packets and prev_bytes are the collector's
\* prev_packets and prev_bytes before the last attempt
NotSampled ==
    [at |-> 0, skipped |-> TRUE, outcome |-> "ok", prev_packets |-> 0,
     prev_bytes |-> 0]

\* run_daemon once the server task and the signal task are spawned: pc is
\* the position of the main task, running the flag the signal task clears,
\* skel the loaded skeleton that owns the maps, server_handle the server
\* task, and conn says whether the server task is inside handle_connection
Started ==
    [pc |-> "test", running |-> TRUE, skel |-> "loaded",
     server_handle |-> "running", conn |-> "idle"]

\* attached: the interfaces an Attach was answered Success for and no
\* Detach since; modules: the names a LoadWasmModule was answered Success
\* for and no UnloadWasmModule since
NothingServed == [attached |-> {}, modules |-> {}]

\* the clients of the control endpoint.  A connection is "none" before the
\* client connects, "queued" once the listener holds it, "accepted" once
\* listener.accept() has returned it and "closed" at the end of
\* handle_connection; sent is what the client has written so far, answer the
\* response it was sent.  queue are the connections the listener holds in
\* their order, serving is the connection handle_connection is running for,
\* log the connections handled so far in their order.
Clients == {"c1", "c2"}
NothingSent == [kind |-> "nothing"]
NoConnections ==
    [conn |-> [c \in Clients |->
                 [state |-> "none", sent |-> NothingSent, answer |-> None]],
     queue |-> <<>>, serving |-> "none", log |-> <<>>]

\* the Mutex around CollectedStats: owner is the task that holds the guard;
\* sampler is the position of collect_stats inside its critical section and
\* target what it is writing; reader is the position of get_stats;
\* published are the snapshots the samples so far have left behind
Unlocked ==
    [owner |-> "none", sampler |-> "idle", target |-> None,
     reader |-> "idle",
     published |-> {TelemetryCollector_get_stats(TelemetryCollector_new(0))}]

Init ==
    /\ rules = <<>>
    /\ filter_rules = EmptyMap
    /\ redirect_map = EmptyMap
    /\ last = [req |-> NoRequest, result |-> "Ok", resp |-> None,
               lookups |-> <<>>]
    /\ live = {}
    /\ stats_map = MapUpdate(EmptyMap, StatsKey, Zeros(AggregateSize))
    /\ processed = 0
    /\ clock = 0
    /\ telemetry = TelemetryCollector_new(0)
    /\ sampled = NotSampled
    /\ inspectors = <<>>
    /\ wasm_last = [op |-> "none"]
    /\ daemon = Started
    /\ served = NothingServed
    /\ net = NoConnections
    /\ lock = Unlocked

\* one connection: handle_connection reads the request, process_request
\* handles it, and the response of an Ok is written back
Handled(req, out, lookups) ==
    /\ rules' = out.mm.rules
    /\ filter_rules' = out.mm.filter_rules
    /\ redirect_map' = out.mm.redirect_map
    /\ last' = [req |-> req, result |-> out.result, resp |-> out.resp,
                lookups |-> lookups]
    /\ UNCHANGED <<counter_vars, telemetry_vars, wasm_vars, daemon_vars, task_vars>>

AddRule(max_rules, req, now, fr_ok, rd_ok) ==
    /\ Len(rules) < max_rules
    /\ LET out == process_add_rule(Manager, req, now, fr_ok, rd_ok)
       IN /\ Handled(req, out, <<>>)
          /\ live' = IF out.resp.some /\ out.resp.v.kind = "Success"
                     THEN live \cup {req.label} ELSE live

DeleteRule(label, del_ok) ==
    LET req == [type |-> "DeleteRule", label |-> label]
        out == process_delete_rule(Manager, label, del_ok)
    IN /\ Handled(req, out, <<>>)
       /\ live' = IF out.resp.some /\ out.resp.v.kind = "Success"
                  THEN live \ {label} ELSE live

ListRules(include_stats, lookups) ==
    LET req == [type |-> "ListRules", include_stats |-> include_stats]
        out == process_list_rules(Manager, include_stats, lookups)
    IN /\ Handled(req, out, lookups)
       /\ UNCHANGED live

\* the classifier matches a packet against an entry of filter_rules and
\* counts it in the entry's trailing counters
ClassifierCount(value, frame_len, now) ==
    LET n == Len(value)
        stats == ParseStats(value)
    IN SubSeq(value, 1, n - RuleStatsSize) \o LE64(stats.packets + 1) \o
       LE64(stats.bytes + frame_len) \o LE64(now)

RECURSIVE SumPackets(_, _)
SumPackets(m, keys) ==
    IF keys = {} THEN 0
    ELSE LET k == CHOOSE k \in keys : TRUE
         IN ParseStats(m[k]).packets + SumPackets(m, keys \ {k})
Matched(m) == SumPackets(m, DOMAIN m)

\* every packet the classifier processes is counted in the aggregate slot
AggregateCount(m, frame_len) ==
    LET was == ParseAggregate(m[StatsKey])
    IN [m EXCEPT ![StatsKey] =
          LE64(was.packets + 1) \o LE64(was.bytes + frame_len)]

ClassifierMatch(key, frame_len, now) ==
    /\ key \in DOMAIN filter_rules
    /\ Matched(filter_rules) < MaxMatches
    /\ processed < MaxMatches
    /\ filter_rules' = [filter_rules EXCEPT
                          ![key] = ClassifierCount(@, frame_len, now)]
    /\ stats_map' = AggregateCount(stats_map, frame_len)
    /\ processed' = processed + 1
    /\ UNCHANGED <<rules, redirect_map, last, live, telemetry_vars,
                   wasm_vars, daemon_vars, task_vars>>

\* the classifier processes a packet that no rule matches
ClassifierPass(max_packets, frame_len) ==
    /\ processed < max_packets
    /\ stats_map' = AggregateCount(stats_map, frame_len)
    /\ processed' = processed + 1
    /\ UNCHANGED <<rules, filter_rules, redirect_map, last, live,
                   telemetry_vars, wasm_vars, daemon_vars, task_vars>>

\* a call of MapManager::get_stats
Aggregate(outcome) ==
    /\ last' = [req |-> [type |-> "Aggregate"], result |-> "Ok",
                resp |-> Some([kind |-> "Aggregate",
                               stats |-> get_stats(stats_map, outcome)]),
                lookups |-> <<outcome>>]
    /\ UNCHANGED <<manager_vars, counter_vars, telemetry_vars, wasm_vars,
                   daemon_vars, task_vars>>

\* the outcomes of the lookups of one list request, one per rule
LookupChoices(n) ==
    {lk \in [1..n -> LookupOutcomes] :
        Cardinality({i \in 1..n : lk[i] # "ok"}) <= MaxBadLookups}

AllOk(n) == [i \in 1..n |-> "ok"]

\* the steps of the system: one request handled by the server, or one
\* packet matched by the classifier
AddStep ==
    \E req \in AddRequests, now \in Times, fr_ok \in BOOLEAN,
       rd_ok \in BOOLEAN : AddRule(MaxRules, req, now, fr_ok, rd_ok)
DeleteStep(label) == \E del_ok \in BOOLEAN : DeleteRule(label, del_ok)
ListStep ==
    \E include_stats \in BOOLEAN :
       \E lookups \in (IF include_stats THEN LookupChoices(Len(rules))
                       ELSE {AllOk(Len(rules))}) :
          ListRules(include_stats, lookups)
ClassifierStep ==
    \E key \in DOMAIN filter_rules, frame_len \in FrameLens, now \in Times :
       ClassifierMatch(key, frame_len, now)

Next ==
    \/ AddStep
    \/ \E label \in Labels : DeleteStep(label)
    \/ ListStep
    \/ ClassifierStep

Spec == Init /\ [][Next]_vars

\* the same server without the classifier and with one rule more in the
\* list: the requests that decide the order of the list
OrderAddStep ==
    \E req \in ValidRequests, now \in Times, fr_ok \in BOOLEAN,
       rd_ok \in BOOLEAN : AddRule(MaxOrderRules, req, now, fr_ok, rd_ok)
OrderListStep == ListRules(FALSE, AllOk(Len(rules)))

OrderNext ==
    \/ OrderAddStep
    \/ \E label \in Labels : DeleteStep(label)
    \/ OrderListStep

SpecOrder == Init /\ [][OrderNext]_vars

\* the same server with the requests at the edges of the data model
RangeAddStep ==
    \E req \in RangeRequests, now \in Times, fr_ok \in BOOLEAN,
       rd_ok \in BOOLEAN : AddRule(MaxRules, req, now, fr_ok, rd_ok)

RangeNext ==
    \/ RangeAddStep
    \/ \E label \in Labels : DeleteStep(label)
    \/ ListStep

SpecRange == Init /\ [][RangeNext]_vars

\* the same server with the requests that fill the fields of the value
EncodeAddStep ==
    \E req \in EncodeRequests, now \in Times, fr_ok \in BOOLEAN,
       rd_ok \in BOOLEAN : AddRule(MaxEncodeRules, req, now, fr_ok, rd_ok)

EncodeNext ==
    \/ EncodeAddStep
    \/ \E label \in EncodeLabels \cup {LabelB} : DeleteStep(label)
    \/ OrderListStep

SpecEncode == Init /\ [][EncodeNext]_vars

(***************************************************************************)
(* parse_ip_prefix on its own: it is applied once to the text of a dotted  *)
(* list of three to five decimal numbers, with or without "/p".            *)
(***************************************************************************)
\* the leading number stays below 128 or above 255: TLC's integers end at
\* 2^31 - 1
FirstOctets == {0, 10, 127, 256}
Octets == {0, 1, 255, 256}
OctetCounts == {3, 4, 5}
PrefixLens == {None, Some(0), Some(8), Some(32), Some(33)}
OctetLists ==
    UNION {{o \in [1..n -> FirstOctets \cup Octets] :
              /\ o[1] \in FirstOctets
              /\ \A i \in 2..n : o[i] \in Octets} : n \in OctetCounts}

\* format!("{}.{}.{}.{}") of the numbers, "/{}" of the prefix length
CidrText(octets, prefix) ==
    Join([i \in 1..Len(octets) |-> ToDec(octets[i])], <<".">>) \o
    (IF prefix.some THEN <<"/">> \o ToDec(prefix.v) ELSE <<>>)

ParseIpPrefix(octets, prefix) ==
    LET text == CidrText(octets, prefix)
        out == parse_ip_prefix(text)
    IN /\ last.req = NoRequest
       /\ last' = [req |-> [type |-> "ParseIpPrefix", octets |-> octets,
                            prefix |-> prefix, text |-> text],
                   result |-> IF out.ok THEN "Ok" ELSE "Err",
                   resp |-> IF out.ok THEN Some(out.v) ELSE None,
                   lookups |-> <<>>]
       /\ UNCHANGED <<manager_vars, counter_vars, telemetry_vars, wasm_vars,
                      daemon_vars, task_vars>>

ParseNext ==
    \E octets \in OctetLists, prefix \in PrefixLens :
       ParseIpPrefix(octets, prefix)

SpecParse == Init /\ [][ParseNext]_vars

\* the map manager with the classifier and both counter reads: the
\* requests of the server, packets with and without a matching rule, and
\* calls of get_stats
PassStep == \E frame_len \in FrameLens : ClassifierPass(MaxMatches, frame_len)
AggregateStep == \E outcome \in StatsLookupOutcomes : Aggregate(outcome)

CountersNext ==
    \/ AddStep
    \/ \E label \in Labels : DeleteStep(label)
    \/ ListStep
    \/ ClassifierStep
    \/ PassStep
    \/ AggregateStep

SpecCounters == Init /\ [][CountersNext]_vars

(***************************************************************************)
(* The sandbox host on its own: modules are loaded, packets are handed to  *)
(* the chain of modules, and the modules are listed.                       *)
(***************************************************************************)
LoadModule(id, module) ==
    /\ Len(inspectors) < MaxModules
    /\ LET out == load_module(inspectors, id, module)
       IN /\ inspectors' = out.inspectors
          /\ wasm_last' = [op |-> "load", id |-> id, module |-> module,
                           result |-> out.result]
    /\ UNCHANGED <<manager_vars, last, counter_vars, telemetry_vars,
                   daemon_vars, task_vars>>

InspectPacket(outcomes) ==
    /\ \A i \in 1..Len(inspectors) :
          inspectors[i].processed_packets < MaxInspected
    /\ LET out == inspect_packet(inspectors, outcomes)
       IN /\ inspectors' = out.inspectors
          /\ wasm_last' = [op |-> "inspect", outcomes |-> outcomes,
                           result |-> out.result]
    /\ UNCHANGED <<manager_vars, last, counter_vars, telemetry_vars,
                   daemon_vars, task_vars>>

ListModules ==
    /\ wasm_last' = [op |-> "list", result |-> "Ok",
                     modules |-> list_modules(inspectors)]
    /\ UNCHANGED <<manager_vars, last, counter_vars, telemetry_vars,
                   inspectors, daemon_vars, task_vars>>

LoadStep == \E id \in ModuleIds, module \in Modules : LoadModule(id, module)
InspectStep ==
    \E outcomes \in [1..Len(inspectors) -> InvokeOutcomes] :
       InspectPacket(outcomes)

WasmNext ==
    \/ LoadStep
    \/ InspectStep
    \/ ListModules

SpecWasm == Init /\ [][WasmNext]_vars

(***************************************************************************)
(* WasmInspector::inspect_packet and the loop of WasmManager::inspect_     *)
(* packet as functions of the inspectors they are given: the list holds    *)
(* one or two inspectors in any state of ModuleState (an inspector that    *)
(* was never loaded is Initialized and has no store), a packet is handed   *)
(* to one inspector or to the chain.                                       *)
(***************************************************************************)
ModuleStates == {"Initialized", "Loaded", "Running", "Paused", "Error"}
Inspector(id, state) ==
    [WasmInspector_new(id, GoodModule) EXCEPT
       !.state = state, !.loaded = (state # "Initialized")]
InspectorLists ==
    {<<Inspector("m1", s1)>> : s1 \in ModuleStates} \cup
    {<<Inspector("m1", s1), Inspector("m2", s2)>> :
        s1 \in ModuleStates, s2 \in ModuleStates}

InitInspect ==
    /\ rules = <<>>
    /\ filter_rules = EmptyMap
    /\ redirect_map = EmptyMap
    /\ last = [req |-> NoRequest, result |-> "Ok", resp |-> None,
               lookups |-> <<>>]
    /\ live = {}
    /\ stats_map = MapUpdate(EmptyMap, StatsKey, Zeros(AggregateSize))
    /\ processed = 0
    /\ clock = 0
    /\ telemetry = TelemetryCollector_new(0)
    /\ sampled = NotSampled
    /\ inspectors \in InspectorLists
    /\ wasm_last = [op |-> "none"]
    /\ daemon = Started
    /\ served = NothingServed
    /\ net = NoConnections
    /\ lock = Unlocked

\* a call of WasmInspector::inspect_packet on the i-th inspector
InvokeInspector(i, outcome) ==
    /\ inspectors[i].processed_packets < MaxInspected
    /\ LET out == WasmInspector_inspect_packet(inspectors[i], outcome)
       IN /\ inspectors' = [inspectors EXCEPT ![i] = out.inspector]
          /\ wasm_last' = [op |-> "invoke", index |-> i,
                           outcome |-> outcome, result |-> out.result]
    /\ UNCHANGED <<manager_vars, last, counter_vars, telemetry_vars,
                   daemon_vars, task_vars>>

InvokeStep ==
    \E i \in 1..Len(inspectors), outcome \in InvokeOutcomes :
       InvokeInspector(i, outcome)

InspectNext ==
    \/ InvokeStep
    \/ InspectStep

SpecInspect == InitInspect /\ [][InspectNext]_vars

(***************************************************************************)
(* The sandbox host with its modules loaded from files and a packet handed *)
(* to one module or to the chain: what one invocation counts and what it   *)
(* calls in the sandbox.                                                   *)
(***************************************************************************)
PacketLens == {64, 1500}
AllocPtrs == {2048, 65536}

\* a call of WasmInspector::inspect_packet on the i-th inspector of the
\* host's list with a packet of packet_len bytes
InvokeModule(i, packet_len, alloc_ptr, outcome) ==
    /\ inspectors[i].processed_packets < MaxInspected
    /\ LET out == WasmInspector_inspect_packet(inspectors[i], outcome)
       IN /\ inspectors' = [inspectors EXCEPT ![i] = out.inspector]
          /\ wasm_last' = [op |-> "invoke", index |-> i,
                           outcome |-> outcome, result |-> out.result,
                           packet_len |-> packet_len,
                           alloc_ptr |-> alloc_ptr,
                           calls |-> host_calls(inspectors[i], packet_len,
                                                alloc_ptr, outcome)]
    /\ UNCHANGED <<manager_vars, last, counter_vars, telemetry_vars,
                   daemon_vars, task_vars>>

InvokeModuleStep ==
    \E i \in 1..Len(inspectors), packet_len \in PacketLens,
       alloc_ptr \in AllocPtrs, outcome \in InvokeOutcomes :
       InvokeModule(i, packet_len, alloc_ptr, outcome)

InvokeNext ==
    \/ LoadStep
    \/ InvokeModuleStep
    \/ InspectStep

SpecInvoke == Init /\ [][InvokeNext]_vars

(***************************************************************************)
(* The telemetry collector on its own: time passes, the classifier counts  *)
(* packets in the aggregate slot, the slot is reset, the main loop calls   *)
(* collect_stats and the server answers GetStats.                          *)
(***************************************************************************)
Tick ==
    /\ clock + TickMs <= MaxClock
    /\ clock' = clock + TickMs
    /\ UNCHANGED <<manager_vars, last, counter_vars, telemetry, sampled,
                   wasm_vars, daemon_vars, task_vars>>

\* a call of collect_stats, whoever makes it
Collect(wall, outcome) ==
    /\ telemetry' = collect_stats(telemetry, stats_map, clock, wall, outcome)
    /\ sampled' =
          LET skipped == clock - telemetry.last_collection < MinIntervalMs
          IN [at |-> IF skipped THEN sampled.at ELSE clock,
              skipped |-> skipped, outcome |-> outcome,
              prev_packets |-> telemetry.stats.prev_packets,
              prev_bytes |-> telemetry.stats.prev_bytes]
    /\ UNCHANGED <<manager_vars, last, counter_vars, wasm_vars, served, task_vars>>

Sample(wall, outcome) ==
    /\ Collect(wall, outcome)
    /\ UNCHANGED <<clock, daemon>>

GetStats ==
    LET out == process_get_stats(telemetry)
    IN /\ last' = [req |-> [type |-> "GetStats"], result |-> out.result,
                   resp |-> out.resp, lookups |-> <<>>]
       /\ UNCHANGED <<manager_vars, counter_vars, telemetry_vars, wasm_vars,
                      daemon_vars, task_vars>>

\* the aggregate slot starts again from zero
StatsReset ==
    /\ ParseAggregate(stats_map[StatsKey]).packets # 0
    /\ stats_map' = [stats_map EXCEPT ![StatsKey] = Zeros(AggregateSize)]
    /\ UNCHANGED <<manager_vars, last, processed, telemetry_vars, wasm_vars,
                   daemon_vars, task_vars>>

SampleStep ==
    \E wall \in Times, outcome \in StatsLookupOutcomes : Sample(wall, outcome)
TrafficStep ==
    \E frame_len \in FrameLens : ClassifierPass(MaxPackets, frame_len)

TelemetryNext ==
    \/ Tick
    \/ SampleStep
    \/ GetStats
    \/ TrafficStep
    \/ StatsReset

SpecTelemetry == Init /\ [][TelemetryNext]_vars

(***************************************************************************)
(* collect_stats and get_stats as two tasks at the Mutex of the stats: the *)
(* main task runs collect_stats, the server task get_stats.  collect_stats *)
(* takes the guard, writes the rates, then the totals and the time of the  *)
(* update, then prev_packets and prev_bytes, and drops the guard;          *)
(* get_stats takes the guard, copies the four fields and drops it.         *)
(***************************************************************************)
\* collect_stats up to self.stats.lock()
SamplerEnter(wall, outcome) ==
    /\ lock.sampler = "idle"
    /\ collect_stats_updates(telemetry, stats_map, clock, outcome)
    /\ Mutex_lock(lock.owner, "sampler")
    /\ lock' = [lock EXCEPT
                  !.owner = "sampler", !.sampler = "rates",
                  !.target = Some(collect_stats(telemetry, stats_map, clock,
                                                wall, outcome).stats)]
    /\ sampled' = [at |-> clock, skipped |-> FALSE, outcome |-> outcome,
                   prev_packets |-> telemetry.stats.prev_packets,
                   prev_bytes |-> telemetry.stats.prev_bytes]
    /\ UNCHANGED <<manager_vars, last, counter_vars, clock, telemetry,
                   wasm_vars, daemon_vars, net>>

\* stats.packets_per_sec = ..; stats.mbps = ..
SamplerStoreRates ==
    /\ lock.sampler = "rates"
    /\ telemetry' = [telemetry EXCEPT
                       !.stats.packets_per_sec = lock.target.v.packets_per_sec,
                       !.stats.mbps = lock.target.v.mbps]
    /\ lock' = [lock EXCEPT !.sampler = "totals"]
    /\ UNCHANGED <<manager_vars, last, counter_vars, clock, sampled,
                   wasm_vars, daemon_vars, net>>

\* stats.total_packets = ..; stats.total_bytes = ..; stats.last_update = ..
SamplerStoreTotals ==
    /\ lock.sampler = "totals"
    /\ telemetry' = [telemetry EXCEPT
                       !.stats.total_packets = lock.target.v.total_packets,
                       !.stats.total_bytes = lock.target.v.total_bytes,
                       !.stats.last_update = lock.target.v.last_update]
    /\ lock' = [lock EXCEPT !.sampler = "prev"]
    /\ UNCHANGED <<manager_vars, last, counter_vars, clock, sampled,
                   wasm_vars, daemon_vars, net>>

\* stats.prev_packets = ..; stats.prev_bytes = ..; the guard is dropped at
\* the end of the block
SamplerLeave ==
    /\ lock.sampler = "prev"
    /\ telemetry' = [telemetry EXCEPT
                       !.stats.prev_packets = lock.target.v.prev_packets,
                       !.stats.prev_bytes = lock.target.v.prev_bytes]
    /\ lock' = [lock EXCEPT
                  !.owner = Mutex_unlock(@, "sampler"), !.sampler = "idle",
                  !.target = None,
                  !.published =
                      @ \cup {TelemetryCollector_get_stats(telemetry')}]
    /\ UNCHANGED <<manager_vars, last, counter_vars, clock, sampled,
                   wasm_vars, daemon_vars, net>>

\* get_stats: self.stats.lock()
ReaderEnter ==
    /\ lock.reader = "idle"
    /\ Mutex_lock(lock.owner, "reader")
    /\ lock' = [lock EXCEPT !.owner = "reader", !.reader = "locked"]
    /\ UNCHANGED <<manager_vars, last, counter_vars, telemetry_vars,
                   wasm_vars, daemon_vars, net>>

\* get_stats: the SystemStats is built from the fields and returned, the
\* guard is dropped, and the GetStats request is answered with it
ReaderLeave ==
    /\ lock.reader = "locked"
    /\ LET out == process_get_stats(telemetry)
       IN last' = [req |-> [type |-> "GetStats"], result |-> out.result,
                   resp |-> out.resp, lookups |-> <<>>]
    /\ lock' = [lock EXCEPT
                  !.owner = Mutex_unlock(@, "reader"), !.reader = "idle"]
    /\ UNCHANGED <<manager_vars, counter_vars, telemetry_vars, wasm_vars,
                   daemon_vars, net>>

SamplerEnterStep ==
    \E wall \in Times, outcome \in StatsLookupOutcomes :
       SamplerEnter(wall, outcome)

AtomicNext ==
    \/ Tick
    \/ TrafficStep
    \/ SamplerEnterStep
    \/ SamplerStoreRates
    \/ SamplerStoreTotals
    \/ SamplerLeave
    \/ ReaderEnter
    \/ ReaderLeave

SpecAtomic == Init /\ [][AtomicNext]_vars

(***************************************************************************)
(* run_daemon (src/daemon/src/main.rs): the main task samples the counters *)
(* once per second while the flag is set, the signal task clears the flag  *)
(* on an interrupt, the server task accepts a connection and handles its   *)
(* request; once the flag is cleared the main task drops the skeleton and  *)
(* then aborts the server task.                                            *)
(***************************************************************************)
SleepMs == 1000
MaxUptime == 2000

\* signal::ctrl_c() returns and the flag is cleared
CtrlC ==
    /\ daemon.running
    /\ daemon.pc \notin {"failed", "stopped"}
    /\ daemon' = [daemon EXCEPT !.running = FALSE]
    /\ UNCHANGED <<manager_vars, last, counter_vars, telemetry_vars,
                   wasm_vars, served, task_vars>>

\* while running.load(..)
MainTest ==
    /\ daemon.pc = "test"
    /\ daemon' = [daemon EXCEPT
                    !.pc = IF daemon.running THEN "collect" ELSE "drop"]
    /\ UNCHANGED <<manager_vars, last, counter_vars, telemetry_vars,
                   wasm_vars, served, task_vars>>

\* telemetry.collect_stats().await?
MainCollect(wall, outcome) ==
    /\ daemon.pc = "collect"
    /\ Collect(wall, outcome)
    /\ daemon' = [daemon EXCEPT
                    !.pc = IF collect_stats_result(telemetry, stats_map,
                                                   clock, outcome) = "Ok"
                           THEN "sleep" ELSE "failed"]
    /\ UNCHANGED clock

\* time::sleep(Duration::from_secs(1)).await
MainSleep ==
    /\ daemon.pc = "sleep"
    /\ clock + SleepMs <= MaxUptime
    /\ clock' = clock + SleepMs
    /\ daemon' = [daemon EXCEPT !.pc = "test"]
    /\ UNCHANGED <<manager_vars, last, counter_vars, telemetry, sampled,
                   wasm_vars, served, task_vars>>

\* drop(skel): the program and the maps are released
MainDropSkel ==
    /\ daemon.pc = "drop"
    /\ daemon' = [daemon EXCEPT !.pc = "abort", !.skel = "dropped"]
    /\ UNCHANGED <<manager_vars, last, counter_vars, telemetry_vars,
                   wasm_vars, served, task_vars>>

\* server_handle.abort(): the server task ends at the suspension point it
\* is at, and run_daemon returns
MainAbortServer ==
    /\ daemon.pc = "abort"
    /\ daemon' = [daemon EXCEPT !.pc = "stopped",
                                !.server_handle = "aborted"]
    /\ UNCHANGED <<manager_vars, last, counter_vars, telemetry_vars,
                   wasm_vars, served, task_vars>>

\* the server task is alive: it was not aborted and the process has not
\* exited
ServerAlive ==
    /\ daemon.server_handle = "running"
    /\ daemon.pc \notin {"failed", "stopped"}

\* listener.accept() returns a connection
Accept ==
    /\ ServerAlive
    /\ daemon.conn = "idle"
    /\ daemon' = [daemon EXCEPT !.conn = "reading"]
    /\ UNCHANGED <<manager_vars, last, counter_vars, telemetry_vars,
                   wasm_vars, served, task_vars>>

\* handle_connection for a GetStats request: the request is read, handled
\* and answered
ServeGetStats ==
    /\ ServerAlive
    /\ daemon.conn = "reading"
    /\ LET out == process_get_stats(telemetry)
       IN last' = [req |-> [type |-> "GetStats"], result |-> out.result,
                   resp |-> out.resp, lookups |-> <<>>]
    /\ daemon' = [daemon EXCEPT !.conn = "idle"]
    /\ UNCHANGED <<manager_vars, counter_vars, telemetry_vars, wasm_vars,
                   served, task_vars>>

MainCollectStep ==
    \E wall \in Times, outcome \in StatsLookupOutcomes :
       MainCollect(wall, outcome)

DaemonNext ==
    \/ CtrlC
    \/ MainTest
    \/ MainCollectStep
    \/ MainSleep
    \/ MainDropSkel
    \/ MainAbortServer
    \/ Accept
    \/ ServeGetStats
    \/ TrafficStep
    \/ StatsReset

SpecDaemon == Init /\ [][DaemonNext]_vars

(***************************************************************************)
(* The accept loop of ApiServer::run and the connections of two clients.   *)
(* The loop awaits listener.accept() and then handle_connection for the    *)
(* connection it got; handle_connection waits in read_exact until the      *)
(* client has written its request or has closed its end.                   *)
(***************************************************************************)
ClientRequests ==
    {DropReq(LabelA), [type |-> "DeleteRule", label |-> LabelA],
     [type |-> "GetStats"]}
\* what a client has written when it stops writing
ClientWrites ==
    {[kind |-> "short_length"], [kind |-> "truncated"]} \cup
    {[kind |-> "malformed", req |-> req] : req \in ClientRequests} \cup
    {[kind |-> "complete", req |-> req] : req \in ClientRequests}
Waiting(sent) == sent.kind \in {"nothing", "partial"}

\* a client connects: the listener holds the connection
Connect(c) ==
    /\ net.conn[c].state = "none"
    /\ net' = [net EXCEPT !.conn[c].state = "queued",
                          !.queue = Append(@, c)]
    /\ UNCHANGED <<manager_vars, last, counter_vars, telemetry_vars,
                   wasm_vars, daemon_vars, lock>>

\* a client writes a part of its request, the rest of it, or closes its end
ClientSend(c, sent) ==
    /\ net.conn[c].state \in {"queued", "accepted"}
    /\ Waiting(net.conn[c].sent)
    /\ sent.kind = "partial" => net.conn[c].sent.kind = "nothing"
    /\ net' = [net EXCEPT !.conn[c].sent = sent]
    /\ UNCHANGED <<manager_vars, last, counter_vars, telemetry_vars,
                   wasm_vars, daemon_vars, lock>>

\* listener.accept().await returns the first connection the listener
\* holds; the loop is back at it only when handle_connection has returned
AcceptConnection ==
    /\ ServerAlive
    /\ net.serving = "none"
    /\ net.queue # <<>>
    /\ net' = [net EXCEPT !.conn[Head(net.queue)].state = "accepted",
                          !.queue = Tail(@),
                          !.serving = Head(net.queue)]
    /\ UNCHANGED <<manager_vars, last, counter_vars, telemetry_vars,
                   wasm_vars, daemon_vars, lock>>

\* handle_connection(..).await returns: the reads have ended, the request
\* was handled and the response of an Ok written; an Err is logged by the
\* loop, which goes on
HandleConnection(now, fr_ok, rd_ok) ==
    /\ ServerAlive
    /\ net.serving # "none"
    /\ ~Waiting(net.conn[net.serving].sent)
    /\ LET c == net.serving
           sent == net.conn[c].sent
           out == handle_connection(Manager, telemetry, sent, now, fr_ok,
                                    rd_ok)
           req == IF sent.kind = "complete" THEN sent.req
                  ELSE [type |-> "Unreadable"]
           succeeded == out.resp.some /\ out.resp.v.kind = "Success"
       IN /\ rules' = out.mm.rules
          /\ filter_rules' = out.mm.filter_rules
          /\ redirect_map' = out.mm.redirect_map
          /\ last' = [req |-> req, result |-> out.result,
                      resp |-> out.resp, lookups |-> <<>>]
          /\ live' = IF succeeded /\ req.type = "AddRule"
                     THEN live \cup {req.label}
                     ELSE IF succeeded /\ req.type = "DeleteRule"
                     THEN live \ {req.label}
                     ELSE live
          /\ net' = [net EXCEPT
                       !.conn[c].state = "closed",
                       !.conn[c].answer = out.resp,
                       !.serving = "none",
                       !.log = Append(@, [client |-> c, sent |-> sent.kind,
                                          result |-> out.result])]
    /\ UNCHANGED <<counter_vars, telemetry_vars, wasm_vars, daemon_vars,
                   lock>>

ConnectStep == \E c \in Clients : Connect(c)
ClientSendStep ==
    \E c \in Clients, sent \in ClientWrites \cup {[kind |-> "partial"]} :
       ClientSend(c, sent)
HandleStep ==
    \E now \in Times, fr_ok \in BOOLEAN, rd_ok \in BOOLEAN :
       HandleConnection(now, fr_ok, rd_ok)

ConnNext ==
    \/ ConnectStep
    \/ ClientSendStep
    \/ AcceptConnection
    \/ HandleStep

SpecConn == Init /\ [][ConnNext]_vars

(***************************************************************************)
(* The control server and the requests it answers without a write of the   *)
(* map manager: Attach, Detach, the four sandbox requests, GetStats,       *)
(* DeleteRule and ListRules.                                               *)
(***************************************************************************)
Interfaces == {If_eth0, If_eth1}
AttachModes == {0, 1, 2}

\* one connection whose request leaves the map manager alone
Answered(req, out) ==
    /\ last' = [req |-> req, result |-> out.result, resp |-> out.resp,
                lookups |-> <<>>]
    /\ UNCHANGED <<manager_vars, counter_vars, telemetry_vars, wasm_vars,
                   daemon, task_vars>>
Succeeded(out) == out.resp.some /\ out.resp.v.kind = "Success"

Attach(interface, mode, force) ==
    LET req == [type |-> "Attach", interface |-> interface, mode |-> mode,
                force |-> force]
        out == process_attach(interface, mode, force)
    IN /\ Answered(req, out)
       /\ served' = [served EXCEPT
                       !.attached = IF Succeeded(out)
                                    THEN @ \cup {interface} ELSE @]

Detach(interface) ==
    LET req == [type |-> "Detach", interface |-> interface]
        out == process_detach(interface)
    IN /\ Answered(req, out)
       /\ served' = [served EXCEPT
                       !.attached = IF Succeeded(out)
                                    THEN @ \ {interface} ELSE @]

LoadWasmModule(name, file_path) ==
    LET req == [type |-> "LoadWasmModule", name |-> name,
                file_path |-> file_path]
        out == process_load_wasm_module(name, file_path)
    IN /\ Answered(req, out)
       /\ served' = [served EXCEPT
                       !.modules = IF Succeeded(out)
                                   THEN @ \cup {name} ELSE @]

UnloadWasmModule(name) ==
    LET req == [type |-> "UnloadWasmModule", name |-> name]
        out == process_unload_wasm_module(name)
    IN /\ Answered(req, out)
       /\ served' = [served EXCEPT
                       !.modules = IF Succeeded(out) THEN @ \ {name} ELSE @]

ListWasmModules ==
    /\ Answered([type |-> "ListWasmModules"], process_list_wasm_modules)
    /\ UNCHANGED served

WasmModuleStats(name) ==
    /\ Answered([type |-> "WasmModuleStats", name |-> name],
                process_wasm_module_stats(name))
    /\ UNCHANGED served

AttachStep ==
    \E interface \in Interfaces, mode \in AttachModes, force \in BOOLEAN :
       Attach(interface, mode, force)
DetachStep == \E interface \in Interfaces : Detach(interface)
LoadWasmStep ==
    \E name \in ModuleIds, file_path \in Modules :
       LoadWasmModule(name, file_path)
UnloadWasmStep == \E name \in ModuleIds : UnloadWasmModule(name)
WasmStatsStep == \E name \in ModuleIds : WasmModuleStats(name)

ServerNext ==
    \/ AttachStep
    \/ DetachStep
    \/ LoadWasmStep
    \/ UnloadWasmStep
    \/ ListWasmModules
    \/ WasmStatsStep
    \/ GetStats
    \/ \E label \in Labels : DeleteStep(label)
    \/ ListStep

SpecServer == Init /\ [][ServerNext]_vars

(***************************************************************************)
(* The claims                                                              *)
(***************************************************************************)
RuleKey(rule) == create_prefix_key(rule.src_ip.v[1], rule.src_ip.v[2])
KeyPrefixLen(key) == FromLE(SubSeq(key, 1, 4))
KeyAddr(key) == FromLE(SubSeq(key, 5, 8))
\* addr with the bits beyond the first prefix_len bits cleared (addr < 2^31)
Masked(addr, prefix_len) ==
    IF 32 - prefix_len >= 31 THEN 0
    ELSE (addr \div (2 ^ (32 - prefix_len))) * (2 ^ (32 - prefix_len))
Responded(kind) == last.resp.some /\ last.resp.v.kind = kind
LabelsOf(rs) == {rs[i].label : i \in 1..Len(rs)}

\* C1: an add of a label that is already in the rule list is refused, so no
\* two rules of the list share a label.
C1_LabelsUnique ==
    \A i, j \in 1..Len(rules) : i # j => rules[i].label # rules[j].label

\* C2: an add that fails on a kernel map write (filter_rules, or the
\* redirect_map write after it) leaves filter_rules, redirect_map and the
\* rule list as they were before the call.
WriteFailures == {"Err(Failed to update filter_rules map)",
                  "Err(Failed to update redirect_map)"}
C2_FailedAddRolledBack ==
    [][(AddStep /\ last'.result \in WriteFailures)
        => UNCHANGED <<rules, filter_rules, redirect_map>>]_vars

\* C3: every key written to filter_rules carries its address with the bits
\* beyond the first prefix_len bits cleared.
C3_KeysMasked ==
    \A key \in DOMAIN filter_rules :
        KeyAddr(key) = Masked(KeyAddr(key), KeyPrefixLen(key))

\* C4: ListRules returns a rule with label L exactly when an AddRule with
\* label L succeeded and no DeleteRule for L succeeded after it.
C4_ListedIffLive ==
    (last.req.type = "ListRules" /\ Responded("Rules"))
        => LabelsOf(last.resp.v.rules) = live

\* C5: every entry of list(false) preserves the semantic fields of the rule
\* it lists: read back with the repository's own parsers, the source and
\* destination CIDR, both port ranges, protocol, tcp_flags, action,
\* priority, rate_limit, expire and label are those of the rule.
DecodeCidr(c) == IF c.some THEN parse_ip_prefix(c.v) ELSE [ok |-> TRUE, v |-> None]
DecodePorts(p) ==
    IF p.some THEN parse_port_range(p.v) ELSE [ok |-> TRUE, v |-> <<0, 65535>>]
DecodeProtocol(name) ==
    IF ProtocolType_from_str(name).some
    THEN [ok |-> TRUE, v |-> ProtocolType_from_str(name).v]
    ELSE ParseU8(name)
DecodeFlags(f) == IF f.some THEN TcpFlags_from_str(f.v) ELSE 0
Preserved(rule, info) ==
    /\ info.label = rule.label
    /\ info.priority = rule.priority
    /\ info.rate_limit = rule.rate_limit
    /\ info.expire = rule.expire
    /\ ActionType_from_str(info.action) = Some(rule.action)
    /\ DecodeProtocol(info.protocol) = [ok |-> TRUE, v |-> rule.protocol]
    /\ DecodeFlags(info.tcp_flags) = rule.tcp_flags
    /\ info.src_ip.some = rule.src_ip.some
    /\ info.src_ip.some =>
          parse_ip_prefix(info.src_ip.v) = [ok |-> TRUE, v |-> rule.src_ip.v]
    /\ info.dst_ip.some = rule.dst_ip.some
    /\ info.dst_ip.some =>
          parse_ip_prefix(info.dst_ip.v) = [ok |-> TRUE, v |-> rule.dst_ip.v]
    /\ DecodePorts(info.src_port) =
          [ok |-> TRUE, v |-> <<rule.src_port_min, rule.src_port_max>>]
    /\ DecodePorts(info.dst_port) =
          [ok |-> TRUE, v |-> <<rule.dst_port_min, rule.dst_port_max>>]
C5_RoundTrip ==
    (last.req.type = "ListRules" /\ ~last.req.include_stats
        /\ Responded("Rules"))
        => /\ Len(last.resp.v.rules) = Len(rules)
           /\ \A i \in 1..Len(rules) : Preserved(rules[i], last.resp.v.rules[i])

\* C6: every rule of the list with action REDIRECT (3) has a redirect
\* interface index other than 0: an AddRule with action 3 and no usable
\* interface is answered with Error and adds nothing.
C6_RedirectHasIfindex ==
    \A i \in 1..Len(rules) :
        rules[i].action = 3 => rules[i].redirect_ifindex # 0

\* C7: a delete of a label that is not in the rule list is answered with
\* an Error response naming the label and changes neither the rule list nor
\* a kernel map.
C7_DeleteAbsent ==
    [][\A label \in Labels :
         (DeleteStep(label) /\ label \notin LabelsOf(rules))
            => /\ last'.resp = Some(Error(<<"Rule '", label, "' not found">>))
               /\ UNCHANGED <<rules, filter_rules, redirect_map>>]_vars
\* a delete of an absent label was answered while a rule was listed and
\* both kernel maps held an entry
C7_Witness ==
    /\ last.req.type = "DeleteRule"
    /\ Responded("Error")
    /\ last.req.label \notin LabelsOf(rules)
    /\ rules # <<>>
    /\ DOMAIN filter_rules # {}
    /\ DOMAIN redirect_map # {}

\* C8: a delete of a listed rule leaves redirect_map unchanged, and when it
\* succeeds the rule's filter_rules entry and its list entry are gone, the
\* other entries of both staying as they were.
C8_DeleteFrame ==
    [][\A label \in Labels :
         (DeleteStep(label) /\ label \in LabelsOf(rules))
            => LET index == Position(rules, label)
                   rule == rules[index]
               IN /\ redirect_map' = redirect_map
                  /\ (last'.resp.some /\ last'.resp.v.kind = "Success") =>
                        /\ rules' = RemoveAt(rules, index)
                        /\ rule.src_ip.some =>
                              /\ RuleKey(rule) \notin DOMAIN filter_rules'
                              /\ filter_rules' =
                                    MapDelete(filter_rules, RuleKey(rule))
                        /\ ~rule.src_ip.some => filter_rules' = filter_rules
                  /\ ~(last'.resp.some /\ last'.resp.v.kind = "Success") =>
                        UNCHANGED <<rules, filter_rules>>]_vars
\* a delete succeeded, redirect_map still holds an entry and no rule of the
\* list is a REDIRECT rule with an interface any more
C8_Witness ==
    /\ last.req.type = "DeleteRule"
    /\ Responded("Success")
    /\ DOMAIN redirect_map # {}
    /\ \A i \in 1..Len(rules) :
          ~(rules[i].action = 3 /\ rules[i].redirect_ifindex # 0)

\* C9: the rule list is kept in insertion order and list returns it in
\* that order: an add that succeeds puts its rule behind the others, a
\* delete takes one rule out and leaves the others in their order, nothing
\* else changes the list, and the i-th entry of a list response is the
\* summary of the i-th rule.
C9_InsertionOrder ==
    [][/\ last'.req.type = "AddRule" =>
             \/ rules' = rules
             \/ /\ Len(rules') = Len(rules) + 1
                /\ SubSeq(rules', 1, Len(rules)) = rules
                /\ rules'[Len(rules')].label = last'.req.label
       /\ last'.req.type = "DeleteRule" =>
             \/ rules' = rules
             \/ \E i \in 1..Len(rules) :
                   /\ rules[i].label = last'.req.label
                   /\ rules' = RemoveAt(rules, i)
       /\ last'.req.type = "ListRules" =>
             /\ rules' = rules
             /\ last'.resp.some
             /\ last'.resp.v.rules =
                   [i \in 1..Len(rules) |->
                      to_rule_info(rules[i], last'.resp.v.rules[i].stats)]
      ]_vars
\* a list answered after a delete took one of three rules out: the rule
\* labelled b is listed behind the rule labelled a although the last delete
\* of b succeeded, so an earlier rule labelled b was deleted while both were
\* in the list, and the two are listed in the order of their adds
C9_Witness ==
    /\ last.req.type = "ListRules"
    /\ Responded("Rules")
    /\ Len(rules) = 2
    /\ rules[1].label = LabelA
    /\ rules[2].label = LabelB
    /\ live = {LabelA}
    /\ Len(last.resp.v.rules) = 2
    /\ last.resp.v.rules[1].label = LabelA
    /\ last.resp.v.rules[2].label = LabelB

\* C10: list(true) always answers with the rules: a rule whose lookup is
\* missing, fails or comes back shorter than 24 bytes is listed with stats
\* (0, 0, 0), and every other rule with the counters of its entry.
CountersOf(value) ==
    [packets |-> FromLE(SubSeq(value, Len(value) - 23, Len(value) - 16)),
     bytes |-> FromLE(SubSeq(value, Len(value) - 15, Len(value) - 8)),
     last_matched |-> FromLE(SubSeq(value, Len(value) - 7, Len(value)))]
C10_ListTolerant ==
    [][(ListStep /\ last'.req.include_stats)
        => /\ last'.resp.some
           /\ last'.resp.v.kind = "Rules"
           /\ Len(last'.resp.v.rules) = Len(rules)
           /\ \A i \in 1..Len(rules) :
                LET info == last'.resp.v.rules[i]
                    unread == \/ ~rules[i].src_ip.some
                              \/ RuleKey(rules[i]) \notin DOMAIN filter_rules
                              \/ last'.lookups[i] # "ok"
                IN /\ info.label = rules[i].label
                   /\ info = to_rule_info(rules[i], info.stats)
                   /\ unread => info.stats = ZeroStats
                   /\ ~unread => info.stats =
                         CountersOf(filter_rules[RuleKey(rules[i])])]_vars
\* list(true) answered for two rules: the lookup of one failed or came back
\* short, the other is listed with the packet the classifier counted
C10_Witness ==
    /\ last.req.type = "ListRules"
    /\ last.req.include_stats
    /\ Responded("Rules")
    /\ \E i, j \in 1..Len(last.resp.v.rules) :
          /\ last.lookups[i] # "ok"
          /\ last.resp.v.rules[i].stats = ZeroStats
          /\ last.lookups[j] = "ok"
          /\ last.resp.v.rules[j].stats.packets = 1

\* C11: get_stats answers (0, 0) whenever the lookup of slot 0 fails,
\* finds no value or finds fewer than 16 bytes; and as long as the
\* classifier has processed no packet, every counter read (get_stats, and
\* the per-rule statistics of list(true)) gives packets = 0 and bytes = 0.
C11_ZeroReads ==
    /\ (last.req.type = "Aggregate" /\ last.lookups[1] # "ok")
          => last.resp.v.stats = [packets |-> 0, bytes |-> 0]
    /\ (last.req.type = "Aggregate" /\ processed = 0)
          => last.resp.v.stats = [packets |-> 0, bytes |-> 0]
    /\ (last.req.type = "ListRules" /\ Responded("Rules") /\ processed = 0)
          => \A i \in 1..Len(last.resp.v.rules) :
                /\ last.resp.v.rules[i].stats.packets = 0
                /\ last.resp.v.rules[i].stats.bytes = 0
\* get_stats answered (0, 0) on a short read of a slot that counts a packet
C11_Witness ==
    /\ last.req.type = "Aggregate"
    /\ last.lookups = <<"short">>
    /\ ParseAggregate(stats_map[StatsKey]).packets = 1
    /\ last.resp.v.stats = [packets |-> 0, bytes |-> 0]

\* C12: a module that does not export inspect_packet is not loaded: its
\* load fails, and no module of the host's list lacks the export.
C12_MissingExportRejected ==
    /\ (wasm_last.op = "load" /\ ~wasm_last.module.inspect)
          => wasm_last.result # "Ok"
    /\ \A i \in 1..Len(inspectors) :
          inspectors[i].state = "Loaded" => inspectors[i].path.inspect

\* C13: a module's return value of 0 is permit, 1 is block, and any other
\* value is permit: a packet for which every module returns a value other
\* than 1 is permitted, and a module that returns a value other than 1
\* does not count the packet as blocked.
Invoked(i) ==
    inspectors'[i].processed_packets = inspectors[i].processed_packets + 1
C13_OtherValuesPermit ==
    [][wasm_last'.op = "inspect" =>
         /\ (\A i \in 1..Len(inspectors) :
                /\ inspectors[i].path.inspect
                /\ wasm_last'.outcomes[i].kind = "return"
                /\ wasm_last'.outcomes[i].v # 1)
               => wasm_last'.result = "Ok(false)"
         /\ \A i \in 1..Len(inspectors) :
               (/\ Invoked(i)
                /\ wasm_last'.outcomes[i].kind = "return"
                /\ wasm_last'.outcomes[i].v # 1)
                  => inspectors'[i].blocked_packets =
                        inspectors[i].blocked_packets
      ]_vars

\* C14: an error raised while one module is invoked does not fail the
\* chain: the call answers with a verdict, and a module behind the failing
\* one is still invoked unless a module before it blocked the packet.
Failing(i) ==
    \/ ~inspectors[i].path.inspect
    \/ wasm_last'.outcomes[i].kind # "return"
C14_ErrorIsolated ==
    [][wasm_last'.op = "inspect" =>
         /\ wasm_last'.result \in {"Ok(true)", "Ok(false)"}
         /\ \A i \in 1..Len(inspectors) :
               (/\ ~Failing(i)
                /\ \A j \in 1..(i - 1) :
                      Failing(j) \/ wasm_last'.outcomes[j].v = 0)
                  => Invoked(i)
      ]_vars

\* C15: the modules are invoked in the order of their loads, the first
\* that returns block ends the chain with BLOCK and no module behind it is
\* invoked, and when all return permit the verdict is PERMIT.  A load that
\* succeeds puts its module behind the others; for a packet to which every
\* module returns 0 or 1, the modules up to the first 1 count the packet
\* as processed, that one counts it as blocked, and the modules behind it
\* stay as they were.
FirstBlock(outcomes) ==
    IF \E i \in 1..Len(outcomes) : outcomes[i].v = 1
    THEN CHOOSE i \in 1..Len(outcomes) :
            /\ outcomes[i].v = 1
            /\ \A j \in 1..(i - 1) : outcomes[j].v # 1
    ELSE 0
C15_OrderShortCircuit ==
    [][/\ (wasm_last'.op = "load" /\ wasm_last'.result = "Ok") =>
             /\ Len(inspectors') = Len(inspectors) + 1
             /\ SubSeq(inspectors', 1, Len(inspectors)) = inspectors
             /\ inspectors'[Len(inspectors')].id = wasm_last'.id
       /\ (/\ wasm_last'.op = "inspect"
           /\ \A i \in 1..Len(inspectors) :
                 /\ inspectors[i].path.inspect
                 /\ wasm_last'.outcomes[i] \in {Returns(0), Returns(1)}) =>
             LET first == FirstBlock(wasm_last'.outcomes)
             IN /\ wasm_last'.result =
                      IF first = 0 THEN "Ok(false)" ELSE "Ok(true)"
                /\ Len(inspectors') = Len(inspectors)
                /\ \A i \in 1..Len(inspectors) :
                      inspectors'[i] =
                         IF first # 0 /\ i > first THEN inspectors[i]
                         ELSE IF i = first
                         THEN [inspectors[i] EXCEPT
                                 !.processed_packets = @ + 1,
                                 !.blocked_packets = @ + 1]
                         ELSE [inspectors[i] EXCEPT
                                 !.processed_packets = @ + 1]
      ]_vars
\* the first of two modules blocked a packet the second would have blocked
\* too: the verdict is BLOCK and the second module has processed nothing
C15_Witness ==
    /\ wasm_last.op = "inspect"
    /\ Len(inspectors) = 2
    /\ inspectors[1].id # inspectors[2].id
    /\ wasm_last.outcomes = <<Returns(1), Returns(1)>>
    /\ wasm_last.result = "Ok(true)"
    /\ inspectors[1].blocked_packets = 1
    /\ inspectors[2].processed_packets = 0

\* C16: a load that fails (unreadable file, compile or instantiate
\* failure, no exported memory, failing init) leaves the host's module
\* list as it was, and each of these failures does fail the load.
C16_FailedLoadAtomic ==
    [][wasm_last'.op = "load" =>
         /\ wasm_last'.module \in BrokenModules => wasm_last'.result # "Ok"
         /\ wasm_last'.result # "Ok" => inspectors' = inspectors
      ]_vars
\* the load of a module whose init fails was refused while the host held a
\* module, and the host still holds just that module
C16_Witness ==
    /\ wasm_last.op = "load"
    /\ wasm_last.module = BadInitModule
    /\ wasm_last.result = "Err(Failed to call init function)"
    /\ Len(inspectors) = 1
    /\ inspectors[1].state = "Loaded"

\* a step of the sampler, and what its attempt read
Sampling == telemetry' # telemetry \/ sampled' # sampled
ReadCounters == ~sampled'.skipped /\ sampled'.outcome = "ok"
SlotRead == ParseAggregate(stats_map[StatsKey])

\* C17: a sample that is not skipped divides the counter deltas by the
\* time since the previous sample that was not skipped, and records its
\* own instant as the base of the next sample.
C17_RateBase ==
    [][(Sampling /\ ReadCounters /\ clock - sampled.at >= MinIntervalMs) =>
         LET since == clock - sampled.at
             packets_diff ==
                saturating_sub(SlotRead.packets, telemetry.stats.prev_packets)
             bytes_diff ==
                saturating_sub(SlotRead.bytes, telemetry.stats.prev_bytes)
         IN /\ telemetry'.stats.packets_per_sec =
                  (packets_diff * 1000) \div since
            /\ telemetry'.stats.mbps = Ratio(bytes_diff * 8, since * 1000)
            /\ telemetry'.last_collection = clock
      ]_vars

\* C18: a sample attempted less than 100 ms after the previous sample
\* that was not skipped changes nothing of the collector: the snapshot,
\* prev_packets, prev_bytes and the instant of the last sample stay.
C18_Coalesced ==
    [][(Sampling /\ clock - sampled.at < MinIntervalMs) =>
         telemetry' = telemetry]_vars

\* C19: a sample that reads the counters the previous sample read
\* publishes packets_per_sec 0 and mbps 0.0 and leaves the totals as they
\* were; GetStats answers with the snapshot and changes nothing of the
\* collector.
C19_ZeroDelta ==
    [][/\ (/\ Sampling
           /\ ReadCounters
           /\ SlotRead.packets = telemetry.stats.total_packets
           /\ SlotRead.bytes = telemetry.stats.total_bytes) =>
             /\ telemetry'.stats.packets_per_sec = 0
             /\ telemetry'.stats.mbps = Ratio(0, 1)
             /\ telemetry'.stats.total_packets = telemetry.stats.total_packets
             /\ telemetry'.stats.total_bytes = telemetry.stats.total_bytes
       /\ (last'.req.type = "GetStats" /\ last' # last) =>
             /\ telemetry' = telemetry
             /\ last'.resp =
                   Some([kind |-> "Stats",
                         stats |-> [total_packets |->
                                       telemetry.stats.total_packets,
                                    total_bytes |->
                                       telemetry.stats.total_bytes,
                                    packets_per_sec |->
                                       telemetry.stats.packets_per_sec,
                                    mbps |-> telemetry.stats.mbps]])
      ]_vars
\* GetStats answered after a second sample read the one packet the first
\* sample had read: the total is 1 and both rates are zero
C19_Witness ==
    /\ last.req.type = "GetStats"
    /\ last.resp.v.stats.total_packets = 1
    /\ last.resp.v.stats.packets_per_sec = 0
    /\ last.resp.v.stats.mbps = Ratio(0, 1)
    /\ telemetry.stats.prev_packets = 1
    /\ sampled.prev_packets = 1
    /\ ~sampled.skipped
    /\ sampled.outcome = "ok"

\* C20: a sample that reads a packets (bytes) counter below the value the
\* previous sample stored publishes packets_per_sec 0 (mbps 0.0) and stores
\* the smaller value as prev_packets (prev_bytes).
C20_CounterReset ==
    [][(Sampling /\ ReadCounters) =>
         /\ SlotRead.packets < telemetry.stats.prev_packets =>
               /\ telemetry'.stats.packets_per_sec = 0
               /\ telemetry'.stats.prev_packets = SlotRead.packets
         /\ SlotRead.bytes < telemetry.stats.prev_bytes =>
               /\ telemetry'.stats.mbps = Ratio(0, 1)
               /\ telemetry'.stats.prev_bytes = SlotRead.bytes
      ]_vars
\* the last sample read a slot that was reset after the sample before had
\* stored two packets: both rates are zero and prev_packets is 0
C20_Witness ==
    /\ ~sampled.skipped
    /\ sampled.outcome = "ok"
    /\ sampled.prev_packets = 2
    /\ sampled.prev_bytes = 128
    /\ telemetry.stats.prev_packets = 0
    /\ telemetry.stats.prev_bytes = 0
    /\ telemetry.stats.packets_per_sec = 0
    /\ telemetry.stats.mbps = Ratio(0, 1)

\* C21: a sample of the main loop that cannot read the aggregate counter
\* (the lookup fails, finds no value or finds a short value) leaves the
\* collector and its published snapshot as they were, and the main loop
\* goes on to its sleep: the failure does not end the sampling.
C21_ReadFailureRetained ==
    [][(daemon.pc = "collect" /\ daemon'.pc # "collect"
        /\ ~sampled'.skipped /\ sampled'.outcome # "ok") =>
         /\ telemetry' = telemetry
         /\ daemon'.pc = "sleep"
      ]_vars
\* the main loop sleeps after a sample that could not read the counters,
\* and the snapshot still shows the two packets of the sample before
C21_Witness ==
    /\ daemon.pc = "sleep"
    /\ ~sampled.skipped
    /\ sampled.outcome = "short"
    /\ sampled.prev_packets = 2
    /\ telemetry.stats.total_packets = 2
    /\ telemetry.stats.prev_packets = 2

\* C22: while an interface is attached, an Attach for another interface is
\* answered with Error and the attachment stays as it is, and at no time
\* is more than one interface attached.
C22_SingleInterface ==
    [][last'.req.type = "Attach" =>
         /\ (served.attached # {}
             /\ last'.req.interface \notin served.attached) =>
               /\ last'.resp.some
               /\ last'.resp.v.kind = "Error"
               /\ served'.attached = served.attached
         /\ Cardinality(served'.attached) <= 1
      ]_vars

\* C23: a Detach while nothing is attached is answered with Error, and a
\* Detach succeeds only for the interface that is attached, which is
\* detached by it.
C23_DetachNeedsAttached ==
    [][last'.req.type = "Detach" =>
         IF last'.req.interface \in served.attached
         THEN /\ last'.resp.some
              /\ last'.resp.v.kind = "Success"
              /\ served'.attached = served.attached \ {last'.req.interface}
         ELSE /\ last'.resp.some
              /\ last'.resp.v.kind = "Error"
              /\ served'.attached = served.attached
      ]_vars

\* C25: the server hands the sandbox requests to the sandbox host:
\* ListWasmModules answers with the modules whose LoadWasmModule was
\* answered Success and that no UnloadWasmModule answered Success has taken
\* out since, and WasmModuleStats of such a module succeeds.
ListedModules == {last.resp.v.modules[i].name :
                    i \in 1..Len(last.resp.v.modules)}
C25_WasmLifecycle ==
    /\ last.req.type = "ListWasmModules" =>
          /\ Responded("WasmModules")
          /\ ListedModules = served.modules
    /\ (last.req.type = "WasmModuleStats"
        /\ last.req.name \in served.modules) =>
          Responded("WasmModuleStats")

\* C24: a request that was received and whose handling fails is answered
\* with an Error response: the connection is never closed without one.
C24_FailureAnswered ==
    (last.req.type # "None" /\ last.result # "Ok") => Responded("Error")

\* C26: on shutdown the maps are released last: at the step that releases
\* them the flag is cleared, the sampling loop has ended, the server task
\* neither accepts connections nor handles a request, and no request is in
\* flight.
C26_MapsReleasedLast ==
    [][(daemon.skel = "loaded" /\ daemon'.skel = "dropped") =>
         /\ ~daemon.running
         /\ daemon.pc \notin {"test", "collect", "sleep"}
         /\ daemon.server_handle = "aborted"
         /\ daemon.conn = "idle"
      ]_vars

\* C27: every rule of the list has src_port_min <= src_port_max and
\* dst_port_min <= dst_port_max and CIDR prefix lengths of at most 32: an
\* AddRule that breaks one of these is rejected and adds nothing.
PrefixInRange(c) == c.some => (c.v[2] >= 0 /\ c.v[2] <= 32)
C27_RangesValid ==
    \A i \in 1..Len(rules) :
        /\ rules[i].src_port_min <= rules[i].src_port_max
        /\ rules[i].dst_port_min <= rules[i].dst_port_max
        /\ PrefixInRange(rules[i].src_ip)
        /\ PrefixInRange(rules[i].dst_ip)

\* C28: parse_ip_prefix maps "a.b.c.d" to (address, 32) and "a.b.c.d/p" to
\* (address, p), the address being the big-endian value of the four
\* octets, and returns an error when an octet exceeds 255, when there are
\* not exactly four octets, or when p exceeds 32.
BigEndian(o) == o[1] * 16777216 + o[2] * 65536 + o[3] * 256 + o[4]
C28_ParseIpPrefix ==
    last.req.type = "ParseIpPrefix" =>
        LET o == last.req.octets
            p == last.req.prefix
            malformed == \/ Len(o) # 4
                         \/ \E i \in 1..Len(o) : o[i] > 255
                         \/ (p.some /\ p.v > 32)
        IN IF malformed THEN last.result = "Err" /\ last.resp = None
           ELSE /\ last.result = "Ok"
                /\ last.resp = Some(<<BigEndian(o),
                                      IF p.some THEN p.v ELSE 32>>)
\* "10.1.255.0/8" was parsed to (0x0A01FF00, 8)
C28_Witness ==
    /\ last.req.type = "ParseIpPrefix"
    /\ last.req.text = <<"1", "0", ".", "1", ".", "2", "5", "5", ".", "0",
                         "/", "8">>
    /\ last.resp = Some(<<167902976, 8>>)

\* C29: only modules in state Loaded or Running are invoked.  A call of
\* inspect_packet on a module in state Initialized, Paused or Error
\* returns an error and leaves the module, its processed_packets and
\* blocked_packets included, as it was; the chain leaves such a module as
\* it was and goes on to the next one: a module behind it is invoked
\* unless the chain ended before, and a chain of such modules only
\* permits the packet.
Invocable(i) == inspectors[i].state \in {"Loaded", "Running"}
C29_OnlyLoadedInvoked ==
    [][/\ (wasm_last'.op = "invoke" /\ ~Invocable(wasm_last'.index)) =>
             /\ wasm_last'.result = "Err(WASM module not loaded)"
             /\ inspectors' = inspectors
       /\ wasm_last'.op = "inspect" =>
             /\ \A i \in 1..Len(inspectors) :
                   ~Invocable(i) => inspectors'[i] = inspectors[i]
             /\ \A i \in 1..Len(inspectors) :
                   (/\ Invocable(i)
                    /\ wasm_last'.outcomes[i].kind = "return"
                    /\ \A j \in 1..(i - 1) :
                          \/ ~Invocable(j)
                          \/ wasm_last'.outcomes[j] = Returns(0))
                      => Invoked(i)
             /\ (\A i \in 1..Len(inspectors) : ~Invocable(i))
                   => wasm_last'.result = "Ok(false)"
      ]_vars
\* the chain skipped a Paused module that would have blocked the packet
\* and the Running module behind it blocked it
C29_Witness ==
    /\ wasm_last.op = "inspect"
    /\ Len(inspectors) = 2
    /\ inspectors[1].state = "Paused"
    /\ inspectors[1].processed_packets = 0
    /\ inspectors[2].state = "Running"
    /\ inspectors[2].blocked_packets = 1
    /\ wasm_last.outcomes = <<Returns(1), Returns(1)>>
    /\ wasm_last.result = "Ok(true)"

\* C30: the kernel's view is derived from the list: every rule of the list
\* has an entry in filter_rules whose value encodes the rule (the counters
\* at its end apart), under the key of its prefix length and masked source
\* address if it has a source CIDR; this holds for rules without a source
\* CIDR and after the delete of one of two rules that share a key, too.
Encodes(value, rule) ==
    /\ Len(value) = Len(create_filter_rule(rule))
    /\ Take(value, Len(value) - RuleStatsSize) =
          Take(create_filter_rule(rule), Len(value) - RuleStatsSize)
C30_KernelViewDerived ==
    \A i \in 1..Len(rules) :
        IF rules[i].src_ip.some
        THEN LET key == create_prefix_key(
                            Masked(rules[i].src_ip.v[1], rules[i].src_ip.v[2]),
                            rules[i].src_ip.v[2])
             IN /\ key \in DOMAIN filter_rules
                /\ Encodes(filter_rules[key], rules[i])
        ELSE \E key \in DOMAIN filter_rules :
                Encodes(filter_rules[key], rules[i])

\* C31: every listed rule can be deleted: a delete of a label of the list
\* that the kernel does not refuse (a map delete fails only for a key that
\* is not in the map) is answered Success and takes the rule it names out of
\* the list, whatever adds and deletes came before.
C31_ListedDeletable ==
    [][\A label \in Labels :
         (DeleteRule(label, TRUE) /\ label \in LabelsOf(rules))
            => /\ last'.resp.some /\ last'.resp.v.kind = "Success"
               /\ rules' = RemoveAt(rules, Position(rules, label))]_vars

\* C32: no map-manager operation changes the trailing 24 counter bytes of
\* an existing filter_rules entry: a step that is not the classifier's
\* leaves the counters of every key that was in the map as they were, and
\* the counters of a key it creates are zero.
C32_CountersClassifierOnly ==
    [][processed' = processed =>
         \A key \in DOMAIN filter_rules' :
            IF key \in DOMAIN filter_rules
            THEN CountersOf(filter_rules'[key]) =
                    CountersOf(filter_rules[key])
            ELSE CountersOf(filter_rules'[key]) = ZeroStats]_vars

\* C33: the value written to filter_rules for a rule is 83 bytes: priority
\* (u32), action (u8), protocol (u8), src_port_min, src_port_max,
\* dst_port_min, dst_port_max (u16 each), tcp_flags (u8), redirect_ifindex,
\* rate_limit, expire (u32 each), label (32 bytes), counters (24 bytes), in
\* that order with no padding and each number little-endian; the label
\* field holds at most the first 31 bytes of the label and zeros behind
\* them, and the counters are zero.
Field(value, offset, size) == FromLE(SubSeq(value, offset + 1, offset + size))
C33_ValueLayout ==
    (/\ last.req.type = "AddRule"
     /\ Responded("Success")
     /\ rules[Len(rules)].src_ip.some)
    => LET rule == rules[Len(rules)]
           value == filter_rules[RuleKey(rule)]
           bytes == as_bytes(rule.label)
       IN /\ Len(value) = 83
          /\ Field(value, 0, 4) = rule.priority
          /\ Field(value, 4, 1) = rule.action
          /\ Field(value, 5, 1) = rule.protocol
          /\ Field(value, 6, 2) = rule.src_port_min
          /\ Field(value, 8, 2) = rule.src_port_max
          /\ Field(value, 10, 2) = rule.dst_port_min
          /\ Field(value, 12, 2) = rule.dst_port_max
          /\ Field(value, 14, 1) = rule.tcp_flags
          /\ Field(value, 15, 4) = rule.redirect_ifindex
          /\ Field(value, 19, 4) = rule.rate_limit
          /\ Field(value, 23, 4) = rule.expire
          /\ \A i \in 1..32 :
                value[27 + i] = IF i <= Len(bytes) /\ i <= 31 THEN bytes[i]
                                ELSE 0
          /\ \A i \in 1..24 : value[59 + i] = 0
          /\ \A i \in 1..83 : value[i] \in 0..255
\* a rule with a label of 33 bytes and fields of more than one byte was
\* written: its label field ends in a zero behind 31 bytes of the label
C33_Witness ==
    /\ last.req.type = "AddRule"
    /\ Responded("Success")
    /\ rules # <<>>
    /\ rules[Len(rules)].label = LongLabel(33)
    /\ rules[Len(rules)].priority = 66051
    /\ rules[Len(rules)].redirect_ifindex = 258
    /\ rules[Len(rules)].src_ip.some
    /\ LET value == filter_rules[RuleKey(rules[Len(rules)])]
       IN /\ SubSeq(value, 1, 4) = <<3, 2, 1, 0>>
          /\ SubSeq(value, 16, 19) = <<2, 1, 0, 0>>
          /\ SubSeq(value, 58, 59) = <<108, 0>>

\* C34: per-module accounting.  An invocation of a module that completes
\* (the entry point returns) adds exactly 1 to the module's
\* processed_packets, and 1 to its blocked_packets iff the verdict of the
\* invocation is block; an invocation that fails at allocate, at the memory
\* write or in the entry point changes neither counter; a module that is
\* not invoked keeps its counters; so blocked_packets <= processed_packets
\* in every reachable state.
Counted(i, processed_by, blocked_by) ==
    /\ inspectors'[i].processed_packets =
          inspectors[i].processed_packets + processed_by
    /\ inspectors'[i].blocked_packets =
          inspectors[i].blocked_packets + blocked_by
C34_Accounting ==
    /\ [](\A i \in 1..Len(inspectors) :
             inspectors[i].blocked_packets <= inspectors[i].processed_packets)
    /\ [][/\ wasm_last'.op = "invoke" =>
               LET i == wasm_last'.index
                   outcome == wasm_last'.outcome
                   block == wasm_last'.result = "Ok(true)"
               IN /\ (outcome.kind = "return" /\ inspectors[i].path.inspect)
                        => /\ wasm_last'.result \in {"Ok(true)", "Ok(false)"}
                           /\ Counted(i, 1, IF block THEN 1 ELSE 0)
                  /\ outcome.kind # "return"
                        => /\ wasm_last'.result \notin
                                 {"Ok(true)", "Ok(false)"}
                           /\ Counted(i, 0, 0)
                  /\ \A j \in 1..Len(inspectors) :
                        j # i => Counted(j, 0, 0)
          /\ wasm_last'.op = "inspect" =>
               \A i \in 1..Len(inspectors) :
                  /\ \/ Counted(i, 0, 0)
                     \/ Counted(i, 1, 0)
                     \/ Counted(i, 1, 1) /\ wasm_last'.result = "Ok(true)"
                  /\ wasm_last'.outcomes[i].kind # "return"
                        => Counted(i, 0, 0)
                  /\ (Counted(i, 1, 0) /\ wasm_last'.result = "Ok(true)")
                        => \E j \in (i + 1)..Len(inspectors) :
                              Counted(j, 1, 1)
         ]_vars
\* a module with an allocate export has completed an invocation with
\* verdict block, the module before it one with verdict permit, and its
\* last invocation failed in the entry point and counted nothing
C34_Witness ==
    /\ wasm_last.op = "invoke"
    /\ wasm_last.outcome = Fails("call")
    /\ wasm_last.result = "Err(Failed to call inspect_packet function)"
    /\ inspectors[wasm_last.index].path = AllocModule
    /\ wasm_last.index = 2
    /\ inspectors[2].processed_packets = 1
    /\ inspectors[2].blocked_packets = 1
    /\ inspectors[1].processed_packets = 1
    /\ inspectors[1].blocked_packets = 0

\* C35: buffer placement order.  On an invocation of a module that exports
\* allocate the host first calls allocate(packet length), then writes the
\* packet at the pointer allocate returned and then calls inspect_packet
\* with that pointer and the packet length; for a module without allocate
\* it writes the packet at offset 1024 and calls inspect_packet with
\* pointer 1024.  An invocation that completes has made all of these calls.
CallsOf(fn) ==
    {k \in 1..Len(wasm_last.calls) : wasm_last.calls[k].fn = fn}
C35_BufferPlacement ==
    (wasm_last.op = "invoke" /\ wasm_last.calls # <<>>) =>
       LET module == inspectors[wasm_last.index].path
           len == wasm_last.packet_len
           ptr == IF module.allocate THEN wasm_last.alloc_ptr ELSE 1024
       IN /\ CallsOf("allocate") = IF module.allocate THEN {1} ELSE {}
          /\ module.allocate =>
                wasm_last.calls[1] = Call("allocate", <<len>>)
          /\ \A w \in CallsOf("memory.write") :
                /\ wasm_last.calls[w].args = <<ptr, len>>
                /\ \A a \in CallsOf("allocate") : a < w
          /\ \A c \in CallsOf("inspect_packet") :
                /\ wasm_last.calls[c].args = <<ptr, len>>
                /\ \A a \in CallsOf("allocate") : a < c
                /\ \E w \in CallsOf("memory.write") : w < c
          /\ wasm_last.result \in {"Ok(true)", "Ok(false)"} =>
                CallsOf("inspect_packet") # {}
\* a module with allocate was handed a packet of 1500 bytes: allocate(1500)
\* returned 65536, the packet was written there and inspect_packet was
\* called with (65536, 1500)
C35_Witness ==
    /\ wasm_last.op = "invoke"
    /\ inspectors[wasm_last.index].path = AllocModule
    /\ wasm_last.result = "Ok(true)"
    /\ wasm_last.calls = <<Call("allocate", <<1500>>),
                           Call("memory.write", <<65536, 1500>>),
                           Call("inspect_packet", <<65536, 1500>>)>>

\* C36: connection handlers run concurrently with the accept loop: while a
\* connection that was accepted has not sent its complete request, the
\* server can still accept the next connection the listener holds (and so
\* go on to answer its request).
C36_HandlersConcurrent ==
    \A c \in Clients :
        (/\ net.serving = c
         /\ Waiting(net.conn[c].sent)
         /\ net.queue # <<>>)
        => ENABLED AcceptConnection

\* C38: malformed framing is contained.  A connection whose request ends
\* inside its length or inside its announced bytes, or whose bytes are not
\* the JSON of a request variant, is closed without a response and without
\* a change of the rule list, the kernel maps or the snapshot; the server
\* task stays alive and its loop is back at accept, so that it accepts the
\* next connection the listener holds.
BadFraming == {"short_length", "truncated", "malformed"}
C38_MalformedContained ==
    /\ []((net.serving = "none" /\ net.queue # <<>>)
             => ENABLED AcceptConnection)
    /\ [][(/\ net.serving # "none"
           /\ net'.serving = "none"
           /\ net.conn[net.serving].sent.kind \in BadFraming)
          => /\ UNCHANGED <<rules, filter_rules, redirect_map, stats_map,
                            telemetry>>
             /\ net'.conn[net.serving].state = "closed"
             /\ net'.conn[net.serving].answer = None
             /\ daemon'.server_handle = "running"
             /\ daemon'.pc \notin {"failed", "stopped"}]_vars
\* the first connection sent bytes that are no request and was closed, and
\* the connection after it had its AddRule answered and its rule listed
C38_Witness ==
    /\ Len(net.log) = 2
    /\ net.log[1].sent = "malformed"
    /\ net.log[1].result = "Err(Failed to deserialize request)"
    /\ net.log[2].sent = "complete"
    /\ net.log[2].result = "Ok"
    /\ net.conn[net.log[1].client].answer = None
    /\ Responded("Success")
    /\ Len(rules) = 1

\* C37: snapshot atomicity under interleaving.  With the sampler and the
\* GetStats readers running side by side, every SystemStats a GetStats
\* returns is the snapshot one single sample has left behind, or the
\* all-zero snapshot of the start: never the rates of one sample with the
\* totals of another.
C37_SnapshotAtomic ==
    [][(last' # last /\ last'.req.type = "GetStats")
          => /\ last'.resp.some
             /\ last'.resp.v.kind = "Stats"
             /\ last'.resp.v.stats \in lock.published]_vars
\* a reader was answered with the snapshot of the first sample, and the
\* second sample is inside its update: it has written its rates and not
\* yet its totals
C37_Witness ==
    /\ last.req.type = "GetStats"
    /\ Responded("Stats")
    /\ last.resp.v.stats.total_packets = 1
    /\ lock.owner = "sampler"
    /\ lock.sampler = "totals"
    /\ lock.reader = "idle"
    /\ lock.target.v.total_packets = 2
    /\ telemetry.stats.total_packets = 1
    /\ telemetry.stats.packets_per_sec = lock.target.v.packets_per_sec
    /\ telemetry.stats.packets_per_sec #
          last.resp.v.stats.packets_per_sec

\* C39: module list state invariant.  After any sequence of load_module
\* calls, successful or failed, and of packet inspections, every module in
\* the host's list is in state Loaded or Running and has its store and
\* instance; no module in state Initialized or Error is listed, in the list
\* itself and in what list_modules returns.
C39_ListedAreLoaded ==
    /\ \A i \in 1..Len(inspectors) :
          /\ inspectors[i].state \in {"Loaded", "Running"}
          /\ inspectors[i].loaded
    /\ wasm_last.op = "list" =>
          /\ Len(wasm_last.modules) = Len(inspectors)
          /\ \A i \in 1..Len(wasm_last.modules) :
                wasm_last.modules[i][2] \in {"Loaded", "Running"}
\* the load of a module without memory has just failed while the host held
\* a module that had inspected two packets and blocked one of them
C39_Witness ==
    /\ wasm_last.op = "load"
    /\ wasm_last.result # "Ok"
    /\ wasm_last.module = NoMemoryModule
    /\ Len(inspectors) = 1
    /\ inspectors[1].state = "Loaded"
    /\ inspectors[1].loaded
    /\ inspectors[1].processed_packets = 2
    /\ inspectors[1].blocked_packets = 1

=============================================================================
